---------------------------- MODULE Spec2Model ----------------------------
(***************************************************************************)
(* State-machine model of the aquatab tank simulation engine.              *)
(*                                                                         *)
(* World: src/unnamed/part_009, lines 1-1125 (the World with reproduction, *)
(* eggs, filter and corpse decay).  The Fish class that this World imports *)
(* (with updateLifeCycle, repro and play sub-records) and the persistence  *)
(* methods toJSON / fromJSON / loadFromJSON are not among the sources; the *)
(* operators that stand for them follow spec.md and the test suite and are *)
(* marked as such.  The older engine pair src/src/engine/world.js +        *)
(* src/src/engine/fish.js is modelled separately (SpecEngine).             *)
(*                                                                         *)
(* Units.  Times are stored in half seconds (Sec(n) is n seconds), the     *)
(* speed multiplier in halves (2 is 1.0x), 0..1 scalars of the water in    *)
(* millionths (One01 is 1.0), energy in quarters (4 is 1.0), wellbeing in  *)
(* percent, positions in whole pixels.                                     *)
(***************************************************************************)
EXTENDS Integers, Sequences, FiniteSets, TLC

VARIABLES
    bounds,            \* this.bounds: [width, height]
    fish,              \* this.fish: sequence of fish records
    fishById,          \* this.fishById: the keys of the id index
    food,              \* this.food: sequence of food records
    eggs,              \* this.eggs: sequence of egg records
    nextFoodId, nextFishId, nextEggId, nextPlaySessionId,
    simTimeSec,        \* this.simTimeSec (half seconds)
    selectedFishId,
    initialFishCount,  \* this.initialFishCount (filterUnlockThreshold = 4x)
    foodsConsumedCount,
    filterUnlocked,
    events,            \* this.events: sequence of event types
    playSessions,      \* this.playSessions
    matePairNextTryAt, \* this.matePairNextTryAt: set of [key, at]
    water,             \* this.water
    expiredFoodSinceLastWaterUpdate,
    paused, speedMultiplier,
    call,              \* the last public call: [op, arg, ret, threw]
    started,           \* main.js: the simulation is started
    hidden,            \* document.visibilityState === 'hidden'
    rafId,             \* main.js: handle of the animation-frame request
    bgIntervalId,      \* main.js: handle of the background interval
    frameRequests,     \* the browser: animation-frame requests pending
    intervals,         \* the browser: intervals running
    nextHandle         \* the browser: the next handle it gives out

vars == << bounds, fish, fishById, food, eggs, nextFoodId, nextFishId,
           nextEggId, nextPlaySessionId, simTimeSec, selectedFishId,
           initialFishCount, foodsConsumedCount, filterUnlocked, events,
           playSessions, matePairNextTryAt, water,
           expiredFoodSinceLastWaterUpdate, paused, speedMultiplier, call,
           started, hidden, rafId, bgIntervalId, frameRequests, intervals,
           nextHandle >>

\* the page and its drivers
hostVars ==
    << started, hidden, rafId, bgIntervalId, frameRequests, intervals,
       nextHandle >>

---------------------------------------------------------------------------
(* Bounds of the model *)

MaxFish == 4
MaxFood == 1
MaxEggs == 2
MaxFishId == 4
MaxFoodId == 3
MaxEvents == 1
MaxSimTime == 4500
TankWidth == 100
TankHeight == 60

---------------------------------------------------------------------------
(* Numeric helpers *)

Null == -1

Sec(n) == 2 * n

One01 == 1000 * 1000

Min(a, b) == IF a < b THEN a ELSE b

Max(a, b) == IF a > b THEN a ELSE b

clamp(v, lo, hi) == Max(lo, Min(hi, v))

\* variant: clamped from below only
clamp01_noCeiling(v) == Max(0, v)

clamp01(v) == clamp(v, 0, One01)

Range(s) == { s[i] : i \in DOMAIN s }

\* the sequence s with its elements worked out
Listed(s) == SubSeq(s, 1, Len(s))

RemoveAt(s, i) == SubSeq(s, 1, i - 1) \o SubSeq(s, i + 1, Len(s))

Dist2(x1, y1, x2, y2) == (x1 - x2) * (x1 - x2) + (y1 - y2) * (y1 - y2)

\* Math.hypot(dx, dy) <= r
Within(x1, y1, x2, y2, r) == Dist2(x1, y1, x2, y2) <= r * r

---------------------------------------------------------------------------
(* Program constants (seconds, pixels, millionths) *)

CORPSE_GRACE_SEC == 120
CORPSE_DIRT_STEP_SEC == 60
CORPSE_DIRT_INITIAL01 == 70000
CORPSE_DIRT_STEP01 == 10000
CORPSE_DIRT_MAX01 == 120000
MATE_ENCOUNTER_RADIUS_PX == 70
MATE_PAIR_RETRY_MIN_SEC == 25
MATE_MIN_WELLBEING == 80
MATE_MIN_HYGIENE == 600000
FOOD_DEFAULT_TTL == 120
FOOD_REACH_RADIUS == 14
LAY_REACH_RADIUS == 10
LAY_TARGET_OFFSET == 14
ADULT_RADIUS == 22
BABY_END_SEC == 600
JUVENILE_END_SEC == 1500
INITIAL_MAX_AGE_SEC == 1200
LIFESPAN_MEAN_SEC == 5400
ENERGY_FULL == 4
HUNGRY_START_ENERGY == 2
SATIETY_PER_PELLET == 2
FOOD_VISION_HUNGRY == 120
FOOD_VISION_STARVING == 215
FOOD_REACH_BOTTOM_SQ == 566
DEAD_SINK_SPEED == 30
FOOD_MIN_FALL_SPEED == 8
FILTER_INSTALL_DURATION_SEC == 12
FILTER_MAINTENANCE_DURATION_SEC == 12
FILTER_MAINTENANCE_COOLDOWN_SEC == 25
FILTER_DEPLETED_THRESHOLD_01 == 100000
FILTER_DIRT_REMOVE_PER_SEC == 600
FILTER_WEAR_BASE_PER_SEC == 50
WATER_BIOLOAD_DIRT_PER_SEC == 350
WATER_DIRT_PER_EXPIRED_FOOD == 15000
WATER_BASELINE_DECAY_PER_SEC == 200

\* randRange(...) draws: the ends of each configured range
GestationChoices == { Sec(360), Sec(600) }
IncubationChoices == { Sec(120), Sec(300) }
MotherCooldownChoices == { Sec(600) }
FatherCooldownChoices == { Sec(120) }
ClutchChoices == { 1, 2 }
LifespanChoices == { Sec(LIFESPAN_MEAN_SEC) }
LayOffsetChoices == { -20, 20 }

---------------------------------------------------------------------------
(* Tank geometry *)

\* #swimHeight()
swimHeight(b) == Max(40, b.height)

\* #spawnMargin(): clamp(min(width, height) * 0.03, 10, 20)
spawnMargin(b) == clamp((Min(b.width, b.height) * 3) \div 100, 10, 20)

\* Fish.#movementBounds(): margin = size * 0.62, bottomOffset = max(2, size * 0.18)
movementBounds(b) ==
    LET margin == (ADULT_RADIUS * 62) \div 100
        bottomOffset == Max(2, (ADULT_RADIUS * 18) \div 100)
    IN  [ minX |-> margin, maxX |-> Max(margin, b.width - margin),
          minY |-> margin, maxY |-> Max(margin, b.height - bottomOffset) ]

\* Fish.#pickTarget(): the ends of the range wander targets are drawn from,
\* inset = clamp(min(width, height) * 0.04, 8, 18)
SwimSpots(b) ==
    LET inset == clamp((Min(b.width, b.height) * 4) \div 100, 8, 18)
    IN  { << inset, inset >>,
          << Max(inset, b.width - inset), Max(inset, b.height - inset) >> }

---------------------------------------------------------------------------
(* Fish records.  Fields follow the Fish object as the World reads it:     *)
(* id, name, sex, spawnTimeSec, lifespanSec, lifeState, lifeStage,         *)
(* energy01, hungerState, wellbeing01, position (x, y), lastDistanceMoved  *)
(* (moved: whether it is positive), deadAtSec, corpseDirtApplied01, repro, *)
(* play and the transient behavior.                                        *)

ReproReady ==
    [ state |-> "READY", fatherId |-> Null, dueAtSec |-> Null,
      cooldownUntilSec |-> 0, layTargetX |-> Null, layTargetY |-> Null ]

\* the play sub-record of a fish in no session; methods: whether the Fish
\* object has the play methods that the World calls with ?.
PlayIdle ==
    [ sessionId |-> Null, role |-> "NONE", targetFishId |-> Null,
      untilSec |-> Null, eligibleAtSec |-> 0, methods |-> FALSE ]

WanderBehavior == [ mode |-> "wander", targetFoodId |-> Null ]

DeadSinkBehavior == [ mode |-> "deadSink", targetFoodId |-> Null ]

\* hungerState from hunger01 = 1 - energy01 against the thresholds 0.35 and
\* 0.72: energy 4/4 and 3/4 are FED, 2/4 is HUNGRY, 1/4 and 0 are STARVING
HungerStateOf(energy) ==
    IF energy >= 3 THEN "FED" ELSE IF energy = 2 THEN "HUNGRY" ELSE "STARVING"

\* wellbeing01 = clamp(1 - hunger01 ** 1.3, 0, 1), in percent
WellbeingOf(energy) ==
    CASE energy >= 4 -> 100
      [] energy = 3 -> 83
      [] energy = 2 -> 59
      [] energy = 1 -> 31
      [] OTHER -> 0

\* life stage from age: BABY until babyEndSec, JUVENILE until juvenileEndSec,
\* OLD from oldStartRatio (0.85) of the lifespan
StageOf(age, lifespan) ==
    IF age < Sec(BABY_END_SEC) THEN "BABY"
    ELSE IF age < Sec(JUVENILE_END_SEC) THEN "JUVENILE"
    ELSE IF 100 * age >= 85 * lifespan THEN "OLD"
    ELSE "ADULT"

\* Fish.updateLifeCycle(simTimeSec): age, stage, death from old age
FishUpdateLifeCycle(f, now) ==
    IF f.lifeState # "ALIVE" THEN f
    ELSE LET age == Max(0, now - f.spawnTimeSec)
         IN  IF age >= f.lifespanSec
             THEN [f EXCEPT !.lifeState = "DEAD", !.deathReason = "OLD_AGE",
                            !.behavior = DeadSinkBehavior]
             ELSE [f EXCEPT !.lifeStage = StageOf(age, f.lifespanSec)]

\* new Fish(bounds, {...}) as World.#createFish calls it, then the sex and
\* hungryStart overrides and fish.updateLifeCycle(simTimeSec)
CreateFish(id, now, sex, initialAgeSec, hungryStart, pos, lifespan) ==
    LET age == Min(Max(0, initialAgeSec), Sec(INITIAL_MAX_AGE_SEC))
        energy == IF hungryStart THEN HUNGRY_START_ENERGY ELSE ENERGY_FULL
    IN  FishUpdateLifeCycle(
          [ id |-> id, name |-> "", sex |-> sex,
            spawnTimeSec |-> now - age, lifespanSec |-> lifespan,
            lifeState |-> "ALIVE", lifeStage |-> "BABY", deathReason |-> "NONE",
            energy01 |-> energy, hungerState |-> HungerStateOf(energy),
            wellbeing01 |-> IF hungryStart THEN 100 ELSE WellbeingOf(energy),
            x |-> pos[1], y |-> pos[2], moved |-> FALSE,
            deadAtSec |-> Null, skeletonAtSec |-> Null, corpseDirtApplied01 |-> 0,
            repro |-> ReproReady, play |-> PlayIdle,
            behavior |-> WanderBehavior ], now)

FishIds(fs) == { fs[i].id : i \in DOMAIN fs }

\* fish.find((f) => f.id === id): the index of the first match, 0 if none
FindFish(fs, id) ==
    IF \E i \in DOMAIN fs : fs[i].id = id
    THEN CHOOSE i \in DOMAIN fs : fs[i].id = id /\ \A j \in 1..(i - 1) : fs[j].id # id
    ELSE 0

---------------------------------------------------------------------------
(* The World as one record, so that the phases of a tick compose *)

World ==
    [ bounds |-> bounds, fish |-> fish, fishById |-> fishById, food |-> food,
      eggs |-> eggs, nextFoodId |-> nextFoodId, nextFishId |-> nextFishId,
      nextEggId |-> nextEggId, nextPlaySessionId |-> nextPlaySessionId,
      simTimeSec |-> simTimeSec, selectedFishId |-> selectedFishId,
      initialFishCount |-> initialFishCount,
      foodsConsumedCount |-> foodsConsumedCount,
      filterUnlocked |-> filterUnlocked, events |-> events,
      playSessions |-> playSessions, matePairNextTryAt |-> matePairNextTryAt,
      water |-> water,
      expiredFoodSinceLastWaterUpdate |-> expiredFoodSinceLastWaterUpdate,
      paused |-> paused, speedMultiplier |-> speedMultiplier ]

SetWorld(w) ==
    /\ bounds' = w.bounds
    /\ fish' = w.fish
    /\ fishById' = w.fishById
    /\ food' = w.food
    /\ eggs' = w.eggs
    /\ nextFoodId' = w.nextFoodId
    /\ nextFishId' = w.nextFishId
    /\ nextEggId' = w.nextEggId
    /\ nextPlaySessionId' = w.nextPlaySessionId
    /\ simTimeSec' = w.simTimeSec
    /\ selectedFishId' = w.selectedFishId
    /\ initialFishCount' = w.initialFishCount
    /\ foodsConsumedCount' = w.foodsConsumedCount
    /\ filterUnlocked' = w.filterUnlocked
    /\ events' = w.events
    /\ playSessions' = w.playSessions
    /\ matePairNextTryAt' = w.matePairNextTryAt
    /\ water' = w.water
    /\ expiredFoodSinceLastWaterUpdate' = w.expiredFoodSinceLastWaterUpdate
    /\ paused' = w.paused
    /\ speedMultiplier' = w.speedMultiplier

\* World.emit(type, payload)
emit(w, type) == [w EXCEPT !.events = Append(@, type)]

\* World.createInitialWaterState()
createInitialWaterState(unlocked) ==
    [ hygiene01 |-> One01, dirt01 |-> 0, filterInstalled |-> FALSE,
      filter01 |-> 0, installProgress01 |-> 0, maintenanceProgress01 |-> 0,
      maintenanceCooldownSec |-> 0, filterUnlocked |-> unlocked,
      filterEnabled |-> TRUE, effectiveFilter01 |-> 0 ]

\* #randomSpawn(size): the corners of the spawn rectangle
SpawnSpots(b) ==
    LET m == spawnMargin(b)
    IN  { << m, m >>,
          << Max(m, b.width - m), Max(m, swimHeight(b) - m) >> }

---------------------------------------------------------------------------
(* Construction *)

\* #registerFish(fish)
registerFish(w, f) ==
    [w EXCEPT !.fish = Append(@, f), !.fishById = @ \cup { f.id }]

\* #rebuildFishById()
rebuildFishById(w) == [w EXCEPT !.fishById = FishIds(w.fish)]

\* #generateInitialPopulation(n): ceil(n/2) females then floor(n/2) males,
\* each hungry and of a random initial age, ids in creation order; order[i]
\* is the creation index that the shuffle puts at position i
generateInitialPopulation(w, n, ages, spots, order) ==
    LET femaleCount == (n + 1) \div 2
        pool == [ i \in 1..n |->
                    CreateFish(w.nextFishId + i - 1, w.simTimeSec,
                               IF i <= femaleCount THEN "female" ELSE "male",
                               ages[i], TRUE, spots[i],
                               CHOOSE l \in LifespanChoices : TRUE) ]
        shuffled == [ i \in 1..n |-> pool[order[i]] ]
        w1 == [w EXCEPT !.fish = shuffled, !.nextFishId = @ + n]
        w2 == rebuildFishById(w1)
    IN  IF \E i \in 1..n : shuffled[i].id = w2.selectedFishId
        THEN w2
        ELSE [w2 EXCEPT !.selectedFishId = IF n > 0 THEN shuffled[1].id ELSE Null]

\* new World(width, height, initialFishCount)
NewWorld(width, height, count, ages, spots, order) ==
    LET n == Max(1, Min(6, count))
        w0 == [ bounds |-> [ width |-> width, height |-> height ],
                fish |-> << >>, fishById |-> {}, food |-> << >>,
                eggs |-> << >>, nextFoodId |-> 1, nextFishId |-> 1,
                nextEggId |-> 1, nextPlaySessionId |-> 1, simTimeSec |-> 0,
                selectedFishId |-> Null, initialFishCount |-> n,
                foodsConsumedCount |-> 0, filterUnlocked |-> FALSE,
                events |-> << >>, playSessions |-> << >>,
                matePairNextTryAt |-> {},
                water |-> createInitialWaterState(FALSE),
                expiredFoodSinceLastWaterUpdate |-> 0,
                paused |-> FALSE, speedMultiplier |-> 2 ]
    IN  generateInitialPopulation(w0, n, ages, spots, order)

\* #shuffleArray(items): every order
Shuffles(n) ==
    { p \in [1..n -> 1..n] : \A i, j \in 1..n : p[i] = p[j] => i = j }

InitialFishCounts == { 2 }

InitialAges == { Sec(INITIAL_MAX_AGE_SEC) }

NoCall == [ op |-> "new", arg |-> 0, ret |-> "return" ]

TankBounds == [ width |-> TankWidth, height |-> TankHeight ]

FreshWorlds ==
    UNION { { NewWorld(TankWidth, TankHeight, n, ages, spots, order) :
                ages \in [1..n -> InitialAges],
                spots \in { sp \in [1..n -> SpawnSpots(TankBounds)] :
                              \A i, j \in 1..n : sp[i] = sp[j] => i = j },
                order \in Shuffles(n) } : n \in InitialFishCounts }

---------------------------------------------------------------------------
(* Public operations of the World, as functions of the world record *)

\* spawnFood(x, y, amount, ttl); amounts in thousandths
spawnFood(w, x, y, amount, ttl) ==
    LET item == [ id |-> w.nextFoodId,
                  x |-> clamp(x, 0, w.bounds.width),
                  y |-> clamp(y, 0, swimHeight(w.bounds)),
                  amount |-> Max(100, amount), ttl |-> ttl ]
    IN  emit([w EXCEPT !.food = Append(@, item), !.nextFoodId = @ + 1],
             "food:spawn")

FindFood(fd, id) ==
    IF \E i \in DOMAIN fd : fd[i].id = id
    THEN CHOOSE i \in DOMAIN fd : fd[i].id = id /\ \A j \in 1..(i - 1) : fd[j].id # id
    ELSE 0

\* variant: the bite is not held to what is left of the pellet
consumedAmount_greedy(w, foodId, amountToConsume) ==
    LET i == FindFood(w.food, foodId)
    IN  IF i = 0 THEN 0 ELSE Max(50, amountToConsume)

\* consumeFood(foodId, amountToConsume): the amount consumed
consumedAmount(w, foodId, amountToConsume) ==
    LET i == FindFood(w.food, foodId)
    IN  IF i = 0 THEN 0 ELSE Min(w.food[i].amount, Max(50, amountToConsume))

\* variant: the filter unlocks after four consumptions, whatever the
\* initial fish count
consumeFood_fixedThreshold(w, foodId, amountToConsume) ==
    LET i == FindFood(w.food, foodId)
        consumed == consumedAmount(w, foodId, amountToConsume)
        left == w.food[i].amount - consumed
        taken(v) == IF left <= 1
                    THEN [v EXCEPT !.food = SelectSeq(@, LAMBDA e : e.id # foodId)]
                    ELSE [v EXCEPT !.food[i].amount = left]
        counted(v) ==
            [v EXCEPT !.foodsConsumedCount = @ + 1,
                      !.filterUnlocked = @ \/ v.foodsConsumedCount + 1 >= 4]
    IN  IF i = 0 THEN w
        ELSE IF consumed > 0
        THEN counted(emit(taken(w), "food:consume"))
        ELSE taken(w)

\* consumeFood(foodId, amountToConsume): the world afterwards
consumeFood(w, foodId, amountToConsume) ==
    LET i == FindFood(w.food, foodId)
        consumed == consumedAmount(w, foodId, amountToConsume)
        left == w.food[i].amount - consumed
        taken(v) == IF left <= 1
                    THEN [v EXCEPT !.food = SelectSeq(@, LAMBDA e : e.id # foodId)]
                    ELSE [v EXCEPT !.food[i].amount = left]
        counted(v) ==
            [v EXCEPT !.foodsConsumedCount = @ + 1,
                      !.filterUnlocked =
                         @ \/ v.foodsConsumedCount + 1 >= 4 * v.initialFishCount]
    IN  IF i = 0 THEN w
        ELSE IF consumed > 0
        THEN counted(emit(taken(w), "food:consume"))
        ELSE taken(w)

\* selectFish(fishId)
selectFish(w, fishId) ==
    [w EXCEPT !.selectedFishId = IF FindFish(w.fish, fishId) > 0 THEN fishId ELSE Null]

\* toggleFishSelection(fishId)
toggleFishSelection(w, fishId) ==
    IF w.selectedFishId = fishId THEN [w EXCEPT !.selectedFishId = Null]
    ELSE selectFish(w, fishId)

\* String(name ?? '').trim().slice(0, 24), on the names entered here
TrimSlice(name) == IF name = " Alice " THEN "Alice" ELSE name

\* renameFish(fishId, name)
renameFish(w, fishId, name) ==
    LET i == FindFish(w.fish, fishId)
    IN  IF i = 0 THEN w ELSE [w EXCEPT !.fish[i].name = TrimSlice(name)]

\* the index of the first fish with this id, alive or not
CorpseIndex_any(w, fishId) == FindFish(w.fish, fishId)

\* the index discardFish / removeCorpse act on: the first fish with this id
\* that is not ALIVE, 0 if none
CorpseIndex(w, fishId) ==
    IF \E i \in DOMAIN w.fish : w.fish[i].id = fishId /\ w.fish[i].lifeState # "ALIVE"
    THEN CHOOSE i \in DOMAIN w.fish :
            /\ w.fish[i].id = fishId /\ w.fish[i].lifeState # "ALIVE"
            /\ \A j \in 1..(i - 1) :
                 ~(w.fish[j].id = fishId /\ w.fish[j].lifeState # "ALIVE")
    ELSE 0

\* variant: the discarded fish stays selected
discardFish_keepSelection(w, fishId) ==
    LET i == CorpseIndex(w, fishId)
    IN  IF i = 0 THEN w
        ELSE [w EXCEPT !.fish = RemoveAt(@, i),
                       !.fishById = @ \ { fishId }]

\* discardFish(fishId)
discardFish(w, fishId) ==
    LET i == CorpseIndex(w, fishId)
    IN  IF i = 0 THEN w
        ELSE [w EXCEPT !.fish = RemoveAt(@, i),
                       !.fishById = @ \ { fishId },
                       !.selectedFishId = IF @ = fishId THEN Null ELSE @]

\* the index removeCorpse acts on: the first fish with this id that is DEAD
DeadIndex(w, fishId) ==
    IF \E i \in DOMAIN w.fish : w.fish[i].id = fishId /\ w.fish[i].lifeState = "DEAD"
    THEN CHOOSE i \in DOMAIN w.fish :
            /\ w.fish[i].id = fishId /\ w.fish[i].lifeState = "DEAD"
            /\ \A j \in 1..(i - 1) :
                 ~(w.fish[j].id = fishId /\ w.fish[j].lifeState = "DEAD")
    ELSE 0

\* variant: the corpse removed stays in the id index
removeCorpse_keepIndex(w, fishId) ==
    LET i == DeadIndex(w, fishId)
    IN  IF i = 0 THEN w
        ELSE [w EXCEPT !.fish = RemoveAt(@, i),
                       !.selectedFishId = IF @ = fishId THEN Null ELSE @]

\* removeCorpse(fishId)
removeCorpse(w, fishId) ==
    LET i == DeadIndex(w, fishId)
    IN  IF i = 0 THEN w
        ELSE [w EXCEPT !.fish = RemoveAt(@, i),
                       !.fishById = @ \ { fishId },
                       !.selectedFishId = IF @ = fishId THEN Null ELSE @]

\* setSpeedMultiplier(value) without the upper bound
setSpeedMultiplier_fast(w, value) ==
    [w EXCEPT !.speedMultiplier = Max(1, value)]

\* setSpeedMultiplier(value): Math.max(0.5, Math.min(3, value)), in halves
setSpeedMultiplier(w, value) ==
    [w EXCEPT !.speedMultiplier = Max(1, Min(6, value))]

\* togglePause()
togglePause(w) == [w EXCEPT !.paused = ~@]

\* flushEvents()
flushEvents(w) == [w EXCEPT !.events = << >>]

\* installWaterFilter() without the test for a filter already installed
canInstallWaterFilter_again(w) ==
    w.water.filterUnlocked /\ ~(w.water.installProgress01 > 0)

\* installWaterFilter()
canInstallWaterFilter(w) ==
    w.water.filterUnlocked /\ ~w.water.filterInstalled /\ ~(w.water.installProgress01 > 0)

installWaterFilter(w) ==
    IF canInstallWaterFilter(w) THEN [w EXCEPT !.water.installProgress01 = 1] ELSE w

\* toggleWaterFilterEnabled() without the test for a maintenance under way
canToggleWaterFilter_midMaintenance(w) ==
    /\ w.water.filterInstalled
    /\ ~(w.water.installProgress01 > 0)

\* toggleWaterFilterEnabled()
canToggleWaterFilter(w) ==
    /\ w.water.filterInstalled
    /\ ~(w.water.installProgress01 > 0)
    /\ ~(w.water.maintenanceProgress01 > 0)

toggleWaterFilterEnabled(w) ==
    IF canToggleWaterFilter(w) THEN [w EXCEPT !.water.filterEnabled = ~@] ELSE w

\* the value toggleWaterFilterEnabled() returns: the flag as it stands when
\* the call is refused, the flipped flag otherwise
toggleWaterFilterEnabledReturn(w) ==
    IF ~canToggleWaterFilter(w) THEN w.water.filterEnabled
    ELSE ~w.water.filterEnabled

\* maintainWaterFilter() without the test for a maintenance under way
canMaintainWaterFilter_restart(w) ==
    /\ w.water.filterInstalled
    /\ ~(w.water.installProgress01 > 0)
    /\ ~(w.water.maintenanceCooldownSec > 0)

\* maintainWaterFilter() without the cooldown test
canMaintainWaterFilter_hasty(w) ==
    /\ w.water.filterInstalled
    /\ ~(w.water.installProgress01 > 0)
    /\ ~(w.water.maintenanceProgress01 > 0)

\* maintainWaterFilter()
canMaintainWaterFilter(w) ==
    /\ w.water.filterInstalled
    /\ ~(w.water.installProgress01 > 0)
    /\ ~(w.water.maintenanceProgress01 > 0)
    /\ ~(w.water.maintenanceCooldownSec > 0)

maintainWaterFilter(w) ==
    IF canMaintainWaterFilter(w) THEN [w EXCEPT !.water.maintenanceProgress01 = 1] ELSE w

---------------------------------------------------------------------------
(* The phases of a tick that belong to the Fish *)

\* Fish.updateMetabolism(dt): tire says whether the distance moved since the
\* last tick costs this fish a quarter of its energy
updateMetabolism(f, dt, tire) ==
    IF dt <= 0 THEN f
    ELSE IF f.lifeState # "ALIVE"
    THEN [f EXCEPT !.energy01 = 0, !.wellbeing01 = 0, !.hungerState = "STARVING"]
    ELSE LET e == IF f.moved /\ tire THEN Max(0, f.energy01 - 1) ELSE f.energy01
             g == [f EXCEPT !.energy01 = e, !.wellbeing01 = WellbeingOf(e),
                            !.hungerState = HungerStateOf(e)]
         IN  IF e <= 0
             THEN [g EXCEPT !.lifeState = "DEAD", !.deathReason = "STARVATION",
                            !.behavior = DeadSinkBehavior]
             ELSE g

\* FOOD_VISION_RADIUS[hungerState]
VisionRadius(state) ==
    CASE state = "HUNGRY" -> FOOD_VISION_HUNGRY
      [] state = "STARVING" -> FOOD_VISION_STARVING
      [] OTHER -> 0

\* Fish.#findNearestFood(foodList): the index of the first item at the least
\* distance within the vision radius, 0 if none
findNearestFood(f, fd) ==
    LET r == VisionRadius(f.hungerState)
        seen == { i \in DOMAIN fd : Within(fd[i].x, fd[i].y, f.x, f.y, r) }
    IN  IF r <= 0 \/ seen = {} THEN 0
        ELSE CHOOSE i \in seen :
               \A j \in seen :
                 \/ Dist2(fd[i].x, fd[i].y, f.x, f.y) < Dist2(fd[j].x, fd[j].y, f.x, f.y)
                 \/ /\ Dist2(fd[i].x, fd[i].y, f.x, f.y) = Dist2(fd[j].x, fd[j].y, f.x, f.y)
                    /\ i <= j

\* variant: Fish.decideBehavior without the test of the life state
decideBehavior_deadDecides(f, w) ==
    IF f.hungerState = "FED" THEN [f EXCEPT !.behavior = WanderBehavior]
    ELSE LET i == findNearestFood(f, w.food)
         IN  IF i = 0 THEN [f EXCEPT !.behavior = WanderBehavior]
             ELSE [f EXCEPT !.behavior =
                      [ mode |-> "seekFood", targetFoodId |-> w.food[i].id ]]

\* Fish.decideBehavior(world)
decideBehavior(f, w) ==
    IF f.lifeState # "ALIVE" THEN [f EXCEPT !.behavior = DeadSinkBehavior]
    ELSE IF f.hungerState = "FED" THEN [f EXCEPT !.behavior = WanderBehavior]
    ELSE LET i == findNearestFood(f, w.food)
         IN  IF i = 0 THEN [f EXCEPT !.behavior = WanderBehavior]
             ELSE [f EXCEPT !.behavior =
                      [ mode |-> "seekFood", targetFoodId |-> w.food[i].id ]]

\* Fish.#resolveCollisions(): the position held inside the movement bounds
resolveCollisions(b, x, y) ==
    LET m == movementBounds(b)
    IN  << clamp(x, m.minX, m.maxX), clamp(y, m.minY, m.maxY) >>

\* Fish.#applyDeadSink(dt): sinks at DEAD_SINK_SPEED px per second
applyDeadSink(f, w, dt) ==
    LET m == movementBounds(w.bounds)
    IN  [f EXCEPT !.y = Min(m.maxY, f.y + (DEAD_SINK_SPEED * Max(0, dt)) \div 2),
                  !.x = clamp(f.x, m.minX, m.maxX),
                  !.moved = FALSE]

\* where a swimming fish is heading: the pellet it seeks, else the lay
\* target of a LAYING female, else the wander target
SteerTarget(f, w, spot) ==
    LET i == FindFood(w.food, f.behavior.targetFoodId)
    IN  IF f.behavior.mode = "seekFood" /\ i > 0 THEN << w.food[i].x, w.food[i].y >>
        ELSE IF f.repro.state = "LAYING" /\ f.repro.layTargetX # Null
        THEN << f.repro.layTargetX, f.repro.layTargetY >>
        ELSE spot

\* the motion of Fish.applySteering(dt): a fish that gets there within the
\* tick (go) ends at its target, any other stays; both inside the bounds
Swim(f, w, dt, go, spot) ==
    LET t == IF go /\ dt > 0 THEN SteerTarget(f, w, spot) ELSE << f.x, f.y >>
        at(p) == [f EXCEPT !.x = p[1], !.y = p[2],
                           !.moved = (p[1] # f.x \/ p[2] # f.y)]
    IN  at(resolveCollisions(w.bounds, t[1], t[2]))

\* Fish.applySteering(dt)
applySteering(f, w, dt, go, spot) ==
    IF f.behavior.mode = "deadSink" THEN applyDeadSink(f, w, dt)
    ELSE Swim(f, w, dt, go, spot)

\* Fish.eat(foodAmount): amounts in thousandths, energy in quarters
eat(f, foodAmount) ==
    IF f.lifeState # "ALIVE" \/ foodAmount <= 0 THEN f
    ELSE LET gain == (SATIETY_PER_PELLET * clamp(foodAmount, 0, 1000)) \div 1000
             e == clamp(f.energy01 + gain, 0, ENERGY_FULL)
         IN  [f EXCEPT !.energy01 = e, !.wellbeing01 = WellbeingOf(e),
                       !.hungerState = HungerStateOf(e)]

\* the test of Fish.tryConsumeFood: the fish seeks a pellet that exists and
\* is within reach (a wider reach for a pellet near the bottom)
CanReachFood(f, w) ==
    LET i == FindFood(w.food, f.behavior.targetFoodId)
    IN  /\ f.behavior.mode = "seekFood"
        /\ i > 0
        /\ Dist2(w.food[i].x, w.food[i].y, f.x, f.y) <=
             (IF w.food[i].y >= w.bounds.height - 8
              THEN FOOD_REACH_BOTTOM_SQ ELSE FOOD_REACH_RADIUS * FOOD_REACH_RADIUS)

\* Fish.tryConsumeFood(world) for the fish at index k: the world afterwards
tryConsumeFood(w, k) ==
    LET f == w.fish[k]
        i == FindFood(w.food, f.behavior.targetFoodId)
        consumed == consumedAmount(w, w.food[i].id, w.food[i].amount)
        after(fed, v) ==
            IF fed.lifeState = "ALIVE" /\ fed.hungerState # "FED"
            THEN decideBehavior(fed, v)
            ELSE [fed EXCEPT !.behavior = WanderBehavior]
        served(v) == [v EXCEPT !.fish[k] = after(eat(f, consumed), v)]
    IN  IF ~CanReachFood(f, w) \/ consumed <= 0 THEN w
        ELSE served(consumeFood(w, w.food[i].id, w.food[i].amount))

\* for (const fish of this.fish) fish.tryConsumeFood(this), from index k on
RECURSIVE consumeAll(_, _)
consumeAll(w, k) ==
    IF k > Len(w.fish) THEN w ELSE consumeAll(tryConsumeFood(w, k), k + 1)

---------------------------------------------------------------------------
(* The phases of a tick that belong to the World *)

\* for (const fish of this.fish) fish.updateLifeCycle?.(this.simTimeSec)
updateLifeCycleAll(w) ==
    [w EXCEPT !.fish = [ i \in DOMAIN @ |-> FishUpdateLifeCycle(@[i], w.simTimeSec) ]]

\* #isMateEligible(fish, nowSec) without the test of the repro state
isMateEligible_anyState(w, f, nowSec) ==
    /\ f.lifeState = "ALIVE"
    /\ f.lifeStage = "ADULT"
    /\ f.hungerState = "FED"
    /\ f.wellbeing01 >= MATE_MIN_WELLBEING
    /\ w.water.hygiene01 >= MATE_MIN_HYGIENE
    /\ nowSec >= f.repro.cooldownUntilSec

\* #isMateEligible(fish, nowSec)
isMateEligible(w, f, nowSec) ==
    /\ f.lifeState = "ALIVE"
    /\ f.lifeStage = "ADULT"
    /\ f.hungerState = "FED"
    /\ f.wellbeing01 >= MATE_MIN_WELLBEING
    /\ w.water.hygiene01 >= MATE_MIN_HYGIENE
    /\ f.repro.state = "READY"
    /\ nowSec >= f.repro.cooldownUntilSec

\* the key of matePairNextTryAt for two fish ids
PairKey(a, b) == IF a < b THEN << a, b >> ELSE << b, a >>

\* matePairNextTryAt.get(key) ?? 0
nextTryAt(w, key) ==
    IF \E e \in w.matePairNextTryAt : e.key = key
    THEN (CHOOSE e \in w.matePairNextTryAt : e.key = key).at
    ELSE 0

\* #tryMatePair(a, b, nowSec) rolling for any two fish of opposite sex
MateAttempt_anyPair(w, i, j, nowSec) ==
    /\ w.fish[i].sex # w.fish[j].sex
    /\ nowSec >= nextTryAt(w, PairKey(w.fish[i].id, w.fish[j].id))

\* variant: #tryMatePair without the test of the pair's retry time
MateAttempt_noRetryGate(w, i, j, nowSec) ==
    /\ w.fish[i].sex # w.fish[j].sex
    /\ isMateEligible(w, w.fish[i], nowSec)
    /\ isMateEligible(w, w.fish[j], nowSec)

\* whether #tryMatePair(a, b, nowSec) gets as far as its roll
MateAttempt(w, i, j, nowSec) ==
    /\ w.fish[i].sex # w.fish[j].sex
    /\ isMateEligible(w, w.fish[i], nowSec)
    /\ isMateEligible(w, w.fish[j], nowSec)
    /\ nowSec >= nextTryAt(w, PairKey(w.fish[i].id, w.fish[j].id))

\* #tryMatePair(a, b, nowSec) for the fish at indices i and j; r holds the
\* draws of the tick: r.mate the pairs whose roll succeeds
tryMatePair(w, i, j, nowSec, r) ==
    LET key == PairKey(w.fish[i].id, w.fish[j].id)
        fi == IF w.fish[i].sex = "female" THEN i ELSE j
        mi == IF w.fish[i].sex = "male" THEN i ELSE j
        w1 == [w EXCEPT !.matePairNextTryAt =
                 { e \in @ : e.key # key }
                 \cup { [ key |-> key, at |-> nowSec + Sec(MATE_PAIR_RETRY_MIN_SEC) ] }]
    IN  IF ~MateAttempt(w, i, j, nowSec) THEN w
        ELSE IF key \notin r.mate THEN w1
        ELSE [w1 EXCEPT
                !.fish[fi].repro.state = "GRAVID",
                !.fish[fi].repro.fatherId = w.fish[mi].id,
                !.fish[fi].repro.dueAtSec = nowSec + r.gestation,
                !.fish[fi].repro.layTargetX = Null,
                !.fish[fi].repro.layTargetY = Null,
                !.fish[mi].repro.cooldownUntilSec = nowSec + r.fatherCooldown]

\* the pairs the scan of #updateReproduction visits, in its order
RECURSIVE ScanPairsFrom(_, _)
ScanPairsFrom(i, n) ==
    IF i >= n THEN << >>
    ELSE [ j \in 1..(n - i) |-> << i, i + j >> ] \o ScanPairsFrom(i + 1, n)

ScanPairs(n) == ScanPairsFrom(1, n)

\* the mating scan of #updateReproduction from the k-th pair on
RECURSIVE mateScan(_, _, _, _)
mateScan(w, k, nowSec, r) ==
    LET pairs == ScanPairs(Len(w.fish))
        a == w.fish[pairs[k][1]]
        b == w.fish[pairs[k][2]]
    IN  IF k > Len(pairs) THEN w
        ELSE IF /\ a.lifeState = "ALIVE" /\ b.lifeState = "ALIVE"
                /\ Within(a.x, a.y, b.x, b.y, MATE_ENCOUNTER_RADIUS_PX)
             THEN mateScan(tryMatePair(w, pairs[k][1], pairs[k][2], nowSec, r),
                           k + 1, nowSec, r)
             ELSE mateScan(w, k + 1, nowSec, r)

\* #layEggClutch(female, nowSec) for the fish at index k
layEggClutch(w, k, nowSec, r) ==
    LET f == w.fish[k]
        egg(n) == [ id |-> w.nextEggId + n - 1,
                    x |-> clamp(f.x, 0, w.bounds.width),
                    y |-> clamp(f.y, 0, swimHeight(w.bounds)),
                    laidAtSec |-> nowSec,
                    hatchAtSec |-> nowSec + r.incubation[n],
                    motherId |-> f.id, fatherId |-> f.repro.fatherId,
                    state |-> "INCUBATING" ]
        clutch == [ n \in 1..Max(1, r.clutch) |-> egg(n) ]
    IN  [w EXCEPT !.eggs = @ \o clutch,
                  !.nextEggId = @ + Len(clutch),
                  !.fish[k].repro =
                     [ state |-> "COOLDOWN", fatherId |-> Null, dueAtSec |-> Null,
                       cooldownUntilSec |-> nowSec + r.motherCooldown,
                       layTargetX |-> Null, layTargetY |-> Null ]]

\* the body of the second loop of #updateReproduction for the fish at index k
\* variant: a due female is reset to READY instead of laying
layStep_reset(w, k, nowSec, r) ==
    LET f == w.fish[k]
    IN  IF f.lifeState # "ALIVE" \/ f.sex # "female" THEN w
        ELSE IF f.repro.state = "GRAVID" /\ f.repro.dueAtSec # Null
                /\ nowSec >= f.repro.dueAtSec
        THEN [w EXCEPT !.fish[k].repro.state = "READY"]
        ELSE w

layStep(w, k, nowSec, r) ==
    LET f == w.fish[k]
        layTargetY == Max(0, swimHeight(w.bounds) - LAY_TARGET_OFFSET)
        due(v) ==
            IF f.repro.state = "GRAVID" /\ f.repro.dueAtSec # Null
               /\ nowSec >= f.repro.dueAtSec
            THEN [v EXCEPT !.fish[k].repro.state = "LAYING",
                           !.fish[k].repro.layTargetX =
                              clamp(f.x + r.layOffset, 0, v.bounds.width),
                           !.fish[k].repro.layTargetY = layTargetY]
            ELSE v
        laid(v) ==
            LET g == v.fish[k]
                tx == IF g.repro.layTargetX # Null THEN g.repro.layTargetX ELSE g.x
                ty == IF g.repro.layTargetY # Null THEN g.repro.layTargetY
                      ELSE layTargetY
            IN  IF g.repro.state = "LAYING"
                   /\ Within(g.x, g.y, tx, ty, LAY_REACH_RADIUS)
                THEN layEggClutch(v, k, nowSec, r)
                ELSE v
        rested(v) ==
            IF v.fish[k].repro.state = "COOLDOWN"
               /\ nowSec >= v.fish[k].repro.cooldownUntilSec
            THEN [v EXCEPT !.fish[k].repro.state = "READY"]
            ELSE v
    IN  IF f.lifeState # "ALIVE" \/ f.sex # "female" THEN w
        ELSE rested(laid(due(w)))

\* the second loop of #updateReproduction from index k on
RECURSIVE layScan(_, _, _, _)
layScan(w, k, nowSec, r) ==
    IF k > Len(w.fish) THEN w
    ELSE layScan(layStep(w, k, nowSec, r), k + 1, nowSec, r)

\* #updateReproduction(dt)
updateReproduction(w, dt, r) ==
    IF dt <= 0 THEN w
    ELSE layScan(mateScan(w, 1, w.simTimeSec, r), 1, w.simTimeSec, r)

\* #updateFishLifeState(): stamps the time of death
updateFishLifeState(w) ==
    [w EXCEPT !.fish = [ i \in DOMAIN @ |->
        IF @[i].lifeState = "DEAD" /\ @[i].deadAtSec = Null
        THEN [@[i] EXCEPT !.deadAtSec = w.simTimeSec] ELSE @[i] ]]

\* the fall of a pellet within dt: at least FOOD_MIN_FALL_SPEED px per second
FoodFall(dt) == (FOOD_MIN_FALL_SPEED * Max(0, dt)) \div 2

\* #updateFood(delta) from index k down to 1
RECURSIVE updateFoodFrom(_, _, _)
\* variant: a pellet whose ttl has run out is removed without being counted
updateFoodFrom_uncounted(w, k, delta) ==
    LET item == w.food[k]
        bottomY == swimHeight(w.bounds)
        aged == [item EXCEPT !.ttl = @ - delta,
                             !.y = Min(bottomY, @ + FoodFall(delta))]
        w1 == IF aged.ttl <= 0
              THEN emit([w EXCEPT !.food = RemoveAt(@, k)], "foodExpired")
              ELSE [w EXCEPT !.food[k] = aged]
    IN  IF k < 1 THEN w ELSE updateFoodFrom(w1, k - 1, delta)

updateFoodFrom(w, k, delta) ==
    LET item == w.food[k]
        bottomY == swimHeight(w.bounds)
        aged == [item EXCEPT !.ttl = @ - delta,
                             !.y = Min(bottomY, @ + FoodFall(delta))]
        w1 == IF aged.ttl <= 0
              THEN emit([w EXCEPT !.food = RemoveAt(@, k),
                                  !.expiredFoodSinceLastWaterUpdate = @ + 1],
                        "foodExpired")
              ELSE [w EXCEPT !.food[k] = aged]
    IN  IF k < 1 THEN w ELSE updateFoodFrom(w1, k - 1, delta)

\* #updateFood(delta)
updateFood(w, delta) == updateFoodFrom(w, Len(w.food), delta)

\* the eggs #updateEggs resolves in this tick
DueEggIds(w) ==
    { w.eggs[i].id : i \in { j \in DOMAIN w.eggs : w.simTimeSec >= w.eggs[j].hatchAtSec } }

\* #updateEggs(dt) from index k down to 1; r.hatch the eggs whose roll succeeds
RECURSIVE updateEggsFrom(_, _, _)
\* variant: an egg whose roll fails stays in the collection
updateEggsFrom_keep(w, k, r) ==
    LET egg == w.eggs[k]
        baby == CreateFish(w.nextFishId, w.simTimeSec, r.babySex, 0, FALSE,
                           << clamp(egg.x, 0, w.bounds.width),
                              clamp(egg.y, 0, swimHeight(w.bounds)) >>,
                           r.lifespan)
        w1 == IF egg.id \in r.hatch
              THEN [registerFish([w EXCEPT !.nextFishId = @ + 1], baby)
                      EXCEPT !.eggs = RemoveAt(@, k)]
              ELSE w
    IN  IF k < 1 THEN w
        ELSE IF w.simTimeSec < egg.hatchAtSec THEN updateEggsFrom(w, k - 1, r)
        ELSE updateEggsFrom(w1, k - 1, r)

\* variant: the eggs are resolved together, when the first of them is due
updateEggsFrom_together(w, k, r) ==
    LET egg == w.eggs[k]
        baby == CreateFish(w.nextFishId, w.simTimeSec, r.babySex, 0, FALSE,
                           << clamp(egg.x, 0, w.bounds.width),
                              clamp(egg.y, 0, swimHeight(w.bounds)) >>,
                           r.lifespan)
        hatched == IF egg.id \in r.hatch
                   THEN registerFish([w EXCEPT !.nextFishId = @ + 1], baby)
                   ELSE w
        resolved == [hatched EXCEPT !.eggs = RemoveAt(@, k)]
    IN  IF k < 1 THEN w
        ELSE updateEggsFrom(
               IF \A i \in DOMAIN w.eggs : w.simTimeSec < w.eggs[i].hatchAtSec
               THEN w ELSE resolved,
               k - 1, r)

updateEggsFrom(w, k, r) ==
    LET egg == w.eggs[k]
        baby == CreateFish(w.nextFishId, w.simTimeSec, r.babySex, 0, FALSE,
                           << clamp(egg.x, 0, w.bounds.width),
                              clamp(egg.y, 0, swimHeight(w.bounds)) >>,
                           r.lifespan)
        hatched == IF egg.id \in r.hatch
                   THEN registerFish([w EXCEPT !.nextFishId = @ + 1], baby)
                   ELSE w
        resolved == [hatched EXCEPT !.eggs = RemoveAt(@, k)]
    IN  IF k < 1 THEN w
        ELSE updateEggsFrom(IF w.simTimeSec < egg.hatchAtSec THEN w ELSE resolved,
                            k - 1, r)

\* #updateEggs(dt)
updateEggs(w, dt, r) ==
    IF dt <= 0 THEN w ELSE updateEggsFrom(w, Len(w.eggs), r)

\* the corpse loop of #updateWaterHygiene from index k down to 1
RECURSIVE corpseScan(_, _)
\* variant: a corpse soils the water from the tick of its death on
corpseScan_noGrace(w, k) ==
    LET f == w.fish[k]
        deadAt == IF f.deadAtSec = Null THEN w.simTimeSec ELSE f.deadAtSec
        ageDeadSec == Max(0, w.simTimeSec - deadAt)
        targetContribution ==
            clamp(CORPSE_DIRT_INITIAL01
                    + CORPSE_DIRT_STEP01 * (ageDeadSec \div Sec(CORPSE_DIRT_STEP_SEC)),
                  0, CORPSE_DIRT_MAX01)
        alreadyApplied == clamp(f.corpseDirtApplied01, 0, CORPSE_DIRT_MAX01)
        soiled(target, delta) ==
            [w EXCEPT !.fish[k].deadAtSec = deadAt,
                      !.fish[k].corpseDirtApplied01 =
                         IF delta > 0 THEN target ELSE @,
                      !.water.dirt01 = IF delta > 0 THEN clamp01(@ + delta) ELSE @]
        cleared(v) ==
            IF v.fish[k].corpseDirtApplied01 >= CORPSE_DIRT_MAX01
            THEN [v EXCEPT !.fish = RemoveAt(@, k),
                           !.fishById = @ \ { f.id },
                           !.selectedFishId = IF @ = f.id THEN Null ELSE @]
            ELSE v
        after(target) == cleared(soiled(target, target - alreadyApplied))
    IN  IF k < 1 THEN w
        ELSE corpseScan(IF f.lifeState # "DEAD" THEN w ELSE after(targetContribution),
                        k - 1)

\* variant: a corpse soils the water and is never taken out
corpseScan_keep(w, k) ==
    LET f == w.fish[k]
        deadAt == IF f.deadAtSec = Null THEN w.simTimeSec ELSE f.deadAtSec
    IN  IF k < 1 THEN w
        ELSE IF f.lifeState # "DEAD" THEN corpseScan(w, k - 1)
        ELSE corpseScan([w EXCEPT !.fish[k].deadAtSec = deadAt], k - 1)

corpseScan(w, k) ==
    LET f == w.fish[k]
        deadAt == IF f.deadAtSec = Null THEN w.simTimeSec ELSE f.deadAtSec
        ageDeadSec == Max(0, w.simTimeSec - deadAt)
        minutesAfterGrace ==
            (ageDeadSec - Sec(CORPSE_GRACE_SEC)) \div Sec(CORPSE_DIRT_STEP_SEC)
        targetContribution ==
            IF ageDeadSec >= Sec(CORPSE_GRACE_SEC)
            THEN clamp(CORPSE_DIRT_INITIAL01 + CORPSE_DIRT_STEP01 * minutesAfterGrace,
                       0, CORPSE_DIRT_MAX01)
            ELSE 0
        alreadyApplied == clamp(f.corpseDirtApplied01, 0, CORPSE_DIRT_MAX01)
        soiled(target, delta) ==
            [w EXCEPT !.fish[k].deadAtSec = deadAt,
                      !.fish[k].corpseDirtApplied01 =
                         IF delta > 0 THEN target ELSE @,
                      !.water.dirt01 = IF delta > 0 THEN clamp01(@ + delta) ELSE @]
        cleared(v) ==
            IF v.fish[k].corpseDirtApplied01 >= CORPSE_DIRT_MAX01
            THEN [v EXCEPT !.fish = RemoveAt(@, k),
                           !.fishById = @ \ { f.id },
                           !.selectedFishId = IF @ = f.id THEN Null ELSE @]
            ELSE v
        after(target) == cleared(soiled(target, target - alreadyApplied))
    IN  IF k < 1 THEN w
        ELSE corpseScan(IF f.lifeState # "DEAD" THEN w ELSE after(targetContribution),
                        k - 1)

\* the filter timers of #updateWaterHygiene with a cooldown that only
\* starts and is never counted down
filterTimers_noCountdown(wt, dt) ==
    LET installed ==
          IF wt.installProgress01 > 0 /\ ~wt.filterInstalled
          THEN LET p == clamp01(wt.installProgress01
                                + (dt * One01) \div Sec(FILTER_INSTALL_DURATION_SEC))
               IN  IF p >= One01
                   THEN [wt EXCEPT !.filterInstalled = TRUE, !.filterEnabled = TRUE,
                                   !.filter01 = One01, !.installProgress01 = 0]
                   ELSE [wt EXCEPT !.installProgress01 = p]
          ELSE wt
    IN  IF installed.maintenanceProgress01 > 0
        THEN LET p == clamp01(installed.maintenanceProgress01
                              + (dt * One01) \div Sec(FILTER_MAINTENANCE_DURATION_SEC))
             IN  IF p >= One01
                 THEN [installed EXCEPT
                         !.filter01 = One01, !.maintenanceProgress01 = 0,
                         !.maintenanceCooldownSec = Sec(FILTER_MAINTENANCE_COOLDOWN_SEC)]
                 ELSE [installed EXCEPT !.maintenanceProgress01 = p]
        ELSE installed

\* the filter timers of #updateWaterHygiene; dt in half seconds
filterTimers(wt, dt) ==
    LET installed ==
          IF wt.installProgress01 > 0 /\ ~wt.filterInstalled
          THEN LET p == clamp01(wt.installProgress01
                                + (dt * One01) \div Sec(FILTER_INSTALL_DURATION_SEC))
               IN  IF p >= One01
                   THEN [wt EXCEPT !.filterInstalled = TRUE, !.filterEnabled = TRUE,
                                   !.filter01 = One01, !.installProgress01 = 0]
                   ELSE [wt EXCEPT !.installProgress01 = p]
          ELSE wt
        cooled ==
          IF installed.maintenanceCooldownSec > 0
          THEN [installed EXCEPT !.maintenanceCooldownSec = Max(0, @ - dt)]
          ELSE installed
    IN  IF cooled.maintenanceProgress01 > 0
        THEN LET p == clamp01(cooled.maintenanceProgress01
                              + (dt * One01) \div Sec(FILTER_MAINTENANCE_DURATION_SEC))
             IN  IF p >= One01
                 THEN [cooled EXCEPT
                         !.filter01 = One01, !.maintenanceProgress01 = 0,
                         !.maintenanceCooldownSec = Sec(FILTER_MAINTENANCE_COOLDOWN_SEC)]
                 ELSE [cooled EXCEPT !.maintenanceProgress01 = p]
        ELSE cooled

\* a filter that works whatever is left of it
hasWorkingFilter_worn(wt) ==
    wt.filterInstalled /\ wt.filterEnabled /\ ~(wt.maintenanceProgress01 > 0)

\* hasWorkingFilter of #updateWaterHygiene
hasWorkingFilter(wt) ==
    /\ wt.filterInstalled /\ wt.filterEnabled
    /\ ~(wt.maintenanceProgress01 > 0)
    /\ wt.filter01 > FILTER_DEPLETED_THRESHOLD_01

\* the dirt, wear and hygiene arithmetic of #updateWaterHygiene, in
\* millionths with truncating division; n fish, dt in half seconds
waterChemistry(wt, n, expiredFoodCount, dt) ==
    LET eff == IF hasWorkingFilter(wt) THEN wt.filter01 ELSE 0
        mitigation == (eff * 6) \div 10
        bioloadDirt == (WATER_BIOLOAD_DIRT_PER_SEC * n * dt) \div 40
        expiredFoodDirt == expiredFoodCount * WATER_DIRT_PER_EXPIRED_FOOD
        dirtA == clamp01(wt.dirt01 + bioloadDirt + expiredFoodDirt)
        removedDirt == (((FILTER_DIRT_REMOVE_PER_SEC * dt) \div 2) * (eff \div 1000)) \div 1000
        dirtB == clamp01(dirtA - removedDirt)
        wearBase == (FILTER_WEAR_BASE_PER_SEC * (20 + n) * dt) \div 40
        wear == (wearBase * (2000 + (5 * dirtB) \div 1000)) \div 2000
        decayBase == (WATER_BASELINE_DECAY_PER_SEC * n
                        * ((One01 - mitigation) \div 1000) * dt) \div 40000
        baselineDecay == (decayBase * (1000 + (3 * dirtB) \div 1000)) \div 1000
        hygieneRecovery == (WATER_BASELINE_DECAY_PER_SEC * n
                              * (mitigation \div 1000) * dt) \div 40000
    IN  [wt EXCEPT !.effectiveFilter01 = eff,
                   !.dirt01 = dirtB,
                   !.filter01 = IF wt.filterInstalled THEN clamp01(@ - wear) ELSE @,
                   !.hygiene01 = clamp01(@ - baselineDecay + hygieneRecovery)]

\* #updateWaterHygiene(dtSec)
updateWaterHygiene(w, dt) ==
    LET expiredFoodCount == w.expiredFoodSinceLastWaterUpdate
        counted(v) == [v EXCEPT !.expiredFoodSinceLastWaterUpdate = 0]
        timed(v) == filterTimers([v.water EXCEPT !.filterUnlocked = v.filterUnlocked], dt)
        watered(v) ==
            [v EXCEPT !.water = waterChemistry(timed(v), Len(v.fish),
                                               expiredFoodCount, dt)]
    IN  IF dt <= 0 THEN counted(w)
        ELSE watered(corpseScan(counted(w), Len(w.fish)))

---------------------------------------------------------------------------
(* One tick: World.update(rawDelta) *)

\* delta = rawDelta * speedMultiplier, the multiplier being in halves
ScaledDelta(rawDelta, speed) == (rawDelta * speed) \div 2

---------------------------------------------------------------------------
(* Social play.  The World calls every play method of a fish with ?. and   *)
(* the Fish class of src/ defines none of them; the methods are modelled   *)
(* from the specification.  play.methods says whether a fish has them: a   *)
(* fish without them never starts to play and the play phases pass it by.  *)
(* The origin of a session and startedNearAlgae serve the presentation     *)
(* only and are left out.                                                  *)

PLAY_JOIN_RADIUS == 82
PLAY_ENCOUNTER_RADIUS == 64
PLAY_RETRY_DELAY_SEC == 10
PLAY_MAX_CHASERS == 5

\* rand(4, 7): the ends of the range
PlayDurationChoices == { Sec(4), Sec(7) }

\* Fish.isPlaying(simTimeSec)
isPlaying(f, now) ==
    /\ f.play.methods
    /\ f.lifeState = "ALIVE"
    /\ f.play.sessionId # Null
    /\ now < f.play.untilSec

\* Fish.canStartPlay(simTimeSec): alive, in no session, not after food and
\* past its eligibility delay
canStartPlay(f, now) ==
    /\ f.play.methods
    /\ f.lifeState = "ALIVE"
    /\ f.play.sessionId = Null
    /\ f.behavior.mode # "seekFood"
    /\ now >= f.play.eligibleAtSec

\* Fish.startPlay({ sessionId, role, untilSec, targetFishId })
startPlay(f, sessionId, role, untilSec, targetFishId) ==
    [f EXCEPT !.play.sessionId = sessionId, !.play.role = role,
              !.play.untilSec = untilSec, !.play.targetFishId = targetFishId]

\* Fish.stopPlay(simTimeSec)
stopPlay(f) ==
    [f EXCEPT !.play.sessionId = Null, !.play.role = "NONE",
              !.play.untilSec = Null, !.play.targetFishId = Null]

\* Fish.delayPlayEligibility(untilSec)
delayPlayEligibility(f, untilSec) ==
    [f EXCEPT !.play.eligibleAtSec = Max(@, untilSec)]

\* Fish.updatePlayState(simTimeSec): a fish whose play is over leaves it
updatePlayState(f, now) ==
    IF f.play.methods /\ f.play.sessionId # Null /\ ~isPlaying(f, now)
    THEN stopPlay(f) ELSE f

updatePlayStateAll(v) ==
    [v EXCEPT !.fish = Listed([ i \in DOMAIN @ |-> updatePlayState(@[i], v.simTimeSec) ])]

\* the chasers of a session that are found and playing, in their order
PlayingChasers(v, s) ==
    SelectSeq(s.chaserFishIds,
              LAMBDA id : /\ FindFish(v.fish, id) > 0
                          /\ isPlaying(v.fish[FindFish(v.fish, id)], v.simTimeSec))

\* the reduce of #updatePlaySessions: the chaser nearest the runner, the
\* first of those equally near
ClosestChaser(v, runner, chasers) ==
    LET d(k) == LET c == v.fish[FindFish(v.fish, chasers[k])]
                IN  Dist2(runner.x, runner.y, c.x, c.y)
    IN  chasers[CHOOSE k \in DOMAIN chasers :
                  /\ \A j \in DOMAIN chasers : d(k) <= d(j)
                  /\ \A j \in 1..(k - 1) : d(j) > d(k)]

\* the filter callback of #updatePlaySessions without the tests of isPlaying
\* and of the expiry: a session is kept while its fish are found
updatePlaySession_noExpiry(v, s) ==
    LET now == v.simTimeSec
        ri == FindFish(v.fish, s.runnerFishId)
        chasers == SelectSeq(s.chaserFishIds, LAMBDA id : FindFish(v.fish, id) > 0)
    IN  IF ri = 0 \/ Len(chasers) < 1
        THEN [v EXCEPT !.fish = Listed([ i \in DOMAIN @ |->
                IF @[i].id \in Range(chasers) THEN stopPlay(@[i]) ELSE @[i] ])]
        ELSE [v EXCEPT !.playSessions = Append(@, [s EXCEPT !.chaserFishIds = chasers])]

\* the filter callback of #updatePlaySessions for the session s; the
\* sessions kept so far are v.playSessions
updatePlaySession(v, s) ==
    LET now == v.simTimeSec
        ri == FindFish(v.fish, s.runnerFishId)
        chasers == PlayingChasers(v, s)
        runnerAliveInSession == ri > 0 /\ isPlaying(v.fish[ri], now)
    IN  IF ~runnerAliveInSession \/ Len(chasers) < 1 \/ now >= s.untilSec
        THEN [v EXCEPT !.fish = Listed([ i \in DOMAIN @ |->
                IF (runnerAliveInSession /\ i = ri) \/ @[i].id \in Range(chasers)
                THEN stopPlay(@[i]) ELSE @[i] ])]
        ELSE [v EXCEPT
                !.fish = Listed([ i \in DOMAIN @ |->
                   IF i = ri
                   THEN [@[i] EXCEPT !.play.role = "RUNNER",
                           !.play.targetFishId = ClosestChaser(v, v.fish[ri], chasers)]
                   ELSE IF @[i].id \in Range(chasers)
                   THEN [@[i] EXCEPT !.play.role = "CHASER",
                                     !.play.targetFishId = s.runnerFishId]
                   ELSE @[i] ]),
                !.playSessions = Append(@, [s EXCEPT !.chaserFishIds = chasers])]

RECURSIVE updatePlaySessionsFrom(_, _, _)
updatePlaySessionsFrom(v, sessions, k) ==
    IF k > Len(sessions) THEN v
    ELSE updatePlaySessionsFrom(updatePlaySession(v, sessions[k]), sessions, k + 1)

\* #updatePlaySessions()
updatePlaySessions(v) ==
    IF v.playSessions = << >> THEN v
    ELSE updatePlaySessionsFrom([v EXCEPT !.playSessions = << >>], v.playSessions, 1)

\* the body of the loop of #tryExpandPlaySessions for the k-th session:
\* every fish that can start to play, is within the join radius of the
\* runner and wins its roll (p.expand) joins as a chaser
expandPlaySession(v, k, p) ==
    LET now == v.simTimeSec
        s == v.playSessions[k]
        ri == FindFish(v.fish, s.runnerFishId)
        joins(i) ==
            /\ canStartPlay(v.fish[i], now)
            /\ Within(v.fish[i].x, v.fish[i].y, v.fish[ri].x, v.fish[ri].y,
                      PLAY_JOIN_RADIUS)
            /\ v.fish[i].id \in p.expand
        joined == SelectSeq([ i \in DOMAIN v.fish |-> i ], joins)
    IN  IF ri = 0 \/ ~isPlaying(v.fish[ri], now) THEN v
        ELSE [v EXCEPT
                !.fish = Listed([ i \in DOMAIN @ |->
                   IF joins(i)
                   THEN startPlay(@[i], s.id, "CHASER", s.untilSec, s.runnerFishId)
                   ELSE @[i] ]),
                !.playSessions[k].chaserFishIds =
                   @ \o [ n \in DOMAIN joined |-> v.fish[joined[n]].id ]]

RECURSIVE tryExpandFrom(_, _, _)
tryExpandFrom(v, k, p) ==
    IF k > Len(v.playSessions) THEN v
    ELSE tryExpandFrom(expandPlaySession(v, k, p), k + 1, p)

\* #tryExpandPlaySessions()
tryExpandPlaySessions(v, p) ==
    IF v.playSessions = << >> THEN v ELSE tryExpandFrom(v, 1, p)

\* the successful roll of #tryStartPlaySessions for the fish at i and j: the
\* session is made, the two start to play, and the fish that can start to
\* play, are within 1.25 encounter radii of the midpoint and win their roll
\* (p.join) join as chasers until there are PLAY_MAX_CHASERS of them
formPlaySession(v, i, j, p) ==
    LET now == v.simTimeSec
        a == v.fish[i]
        b == v.fish[j]
        mx == (a.x + b.x) \div 2
        my == (a.y + b.y) \div 2
        sessionId == v.nextPlaySessionId
        untilSec == now + p.duration
        ru == IF p.runnerFirst THEN i ELSE j
        ch == IF p.runnerFirst THEN j ELSE i
        passes(n) ==
            /\ n # i /\ n # j
            /\ canStartPlay(v.fish[n], now)
            /\ Within(v.fish[n].x, v.fish[n].y, mx, my,
                      (PLAY_ENCOUNTER_RADIUS * 5) \div 4)
            /\ v.fish[n].id \in p.join
        passing == SelectSeq([ n \in DOMAIN v.fish |-> n ], passes)
        joined == SubSeq(passing, 1, Min(PLAY_MAX_CHASERS - 1, Len(passing)))
    IN  [v EXCEPT
           !.nextPlaySessionId = @ + 1,
           !.fish = Listed([ n \in DOMAIN @ |->
              IF n = ru
              THEN startPlay(@[n], sessionId, "RUNNER", untilSec, v.fish[ch].id)
              ELSE IF n = ch \/ n \in Range(joined)
              THEN startPlay(@[n], sessionId, "CHASER", untilSec, v.fish[ru].id)
              ELSE @[n] ]),
           !.playSessions = Append(@,
              [ id |-> sessionId, runnerFishId |-> v.fish[ru].id,
                chaserFishIds |-> << v.fish[ch].id >>
                   \o [ n \in DOMAIN joined |-> v.fish[joined[n]].id ],
                untilSec |-> untilSec ])]

\* the loops of #tryStartPlaySessions from the pair (i, j) on; the fish at i
\* passed canStartPlay when its row began.  A pair within the encounter
\* radius rolls: p.start holds the pairs whose roll succeeds; a failed roll
\* delays both fish
RECURSIVE tryStartFrom(_, _, _, _)
tryStartFrom(v, i, j, p) ==
    LET n == Len(v.fish)
        now == v.simTimeSec
    IN  IF i >= n THEN v
        ELSE IF j > n
        THEN IF i + 1 < n /\ ~canStartPlay(v.fish[i + 1], now)
             THEN tryStartFrom(v, i + 1, n + 1, p)
             ELSE tryStartFrom(v, i + 1, i + 2, p)
        ELSE IF ~canStartPlay(v.fish[j], now)
                \/ ~Within(v.fish[i].x, v.fish[i].y, v.fish[j].x, v.fish[j].y,
                           PLAY_ENCOUNTER_RADIUS)
        THEN tryStartFrom(v, i, j + 1, p)
        ELSE IF PairKey(v.fish[i].id, v.fish[j].id) \in p.start
        THEN formPlaySession(v, i, j, p)
        ELSE tryStartFrom(
               [v EXCEPT
                  !.fish[i] = delayPlayEligibility(@, now + Sec(PLAY_RETRY_DELAY_SEC)),
                  !.fish[j] = delayPlayEligibility(@, now + Sec(PLAY_RETRY_DELAY_SEC))],
               i, j + 1, p)

\* #tryStartPlaySessions()
tryStartPlaySessions(v, p) ==
    IF Len(v.fish) < 2 THEN v
    ELSE IF ~canStartPlay(v.fish[1], v.simTimeSec)
    THEN tryStartFrom(v, 1, Len(v.fish) + 1, p)
    ELSE tryStartFrom(v, 1, 2, p)

\* the rolls of the play phases of a tick in which they all fail
NoPlayDraws ==
    [ start |-> {}, runnerFirst |-> TRUE, duration |-> Sec(4),
      join |-> {}, expand |-> {} ]

\* the play phases of update(rawDelta)
playPhases(v, p) ==
    tryStartPlaySessions(
      tryExpandPlaySessions(updatePlaySessions(updatePlayStateAll(v)), p), p)

\* update(rawDelta) with the behaviour decision taken before the metabolism
Tick_decideFirst(w, rawDelta, r) ==
    LET delta == ScaledDelta(rawDelta, w.speedMultiplier)
        clock(v) == [v EXCEPT !.simTimeSec = @ + delta]
        metabolism(v) ==
            [v EXCEPT !.fish = [ i \in DOMAIN @ |->
               updateMetabolism(@[i], delta, @[i].id \in r.tire) ]]
        decisions(v) ==
            [v EXCEPT !.fish = [ i \in DOMAIN @ |-> decideBehavior(@[i], v) ]]
        steering(v) ==
            [v EXCEPT !.fish = [ i \in DOMAIN @ |->
               applySteering(@[i], v, delta, @[i].id \in r.go, r.spot) ]]
        fishPhases(v) == consumeAll(steering(metabolism(decisions(v))), 1)
        worldPhases(v) ==
            updateEggs(updateFood(updateFishLifeState(v), delta), delta, r)
    IN  updateWaterHygiene(
          worldPhases(fishPhases(
            updateReproduction(playPhases(updateLifeCycleAll(clock(w)), r.play),
                               delta, r))),
          delta)

\* the phases of update(rawDelta) on a world that is not paused, in the
\* order of the code; r holds the random draws of the tick
Tick(w, rawDelta, r) ==
    LET delta == ScaledDelta(rawDelta, w.speedMultiplier)
        clock(v) == [v EXCEPT !.simTimeSec = @ + delta]
        metabolism(v) ==
            [v EXCEPT !.fish = [ i \in DOMAIN @ |->
               updateMetabolism(@[i], delta, @[i].id \in r.tire) ]]
        decisions(v) ==
            [v EXCEPT !.fish = [ i \in DOMAIN @ |-> decideBehavior(@[i], v) ]]
        steering(v) ==
            [v EXCEPT !.fish = [ i \in DOMAIN @ |->
               applySteering(@[i], v, delta, @[i].id \in r.go, r.spot) ]]
        fishPhases(v) == consumeAll(steering(decisions(metabolism(v))), 1)
        worldPhases(v) ==
            updateEggs(updateFood(updateFishLifeState(v), delta), delta, r)
    IN  updateWaterHygiene(
          worldPhases(fishPhases(
            updateReproduction(playPhases(updateLifeCycleAll(clock(w)), r.play),
                               delta, r))),
          delta)

\* variant: the pause is ignored
update_unpaused(w, rawDelta, r) == Tick(w, rawDelta, r)

\* update(rawDelta): nothing while paused
update(w, rawDelta, r) == IF w.paused THEN w ELSE Tick(w, rawDelta, r)

\* the fish a draw of the tick can concern
AliveIds(w) == { w.fish[i].id : i \in { j \in DOMAIN w.fish : w.fish[j].lifeState = "ALIVE" } }

MovedIds(w) ==
    { w.fish[i].id : i \in { j \in DOMAIN w.fish :
                               w.fish[j].lifeState = "ALIVE" /\ w.fish[j].moved } }

\* the pairs whose roll #tryMatePair can reach at the new clock
MateCandidates(w, delta) ==
    LET t1 == updateLifeCycleAll([w EXCEPT !.simTimeSec = @ + delta])
    IN  { PairKey(t1.fish[i].id, t1.fish[j].id) :
            << i, j >> \in { p \in (DOMAIN t1.fish) \X (DOMAIN t1.fish) :
               /\ p[1] < p[2]
               /\ Within(t1.fish[p[1]].x, t1.fish[p[1]].y,
                         t1.fish[p[2]].x, t1.fish[p[2]].y, MATE_ENCOUNTER_RADIUS_PX)
               /\ MateAttempt(t1, p[1], p[2], t1.simTimeSec) } }

\* whether a female can come to lay in this tick
CanLay(w) ==
    \E i \in DOMAIN w.fish :
        w.fish[i].sex = "female" /\ w.fish[i].repro.state \in { "GRAVID", "LAYING" }

\* the draws of one tick, narrowed to those the tick can use
Draws(w, rawDelta) ==
    LET delta == ScaledDelta(rawDelta, w.speedMultiplier)
        live == delta > 0 /\ ~w.paused
        cand == IF live THEN MateCandidates(w, delta) ELSE {}
        lay == live /\ CanLay(w)
        due == IF live THEN DueEggIds([w EXCEPT !.simTimeSec = @ + delta]) ELSE {}
    IN  { [ mate |-> m, gestation |-> g, fatherCooldown |-> fc,
            layOffset |-> lo, clutch |-> c, incubation |-> inc,
            motherCooldown |-> mc, tire |-> ti, go |-> go, spot |-> sp,
            hatch |-> h, babySex |-> bs, lifespan |-> ls, play |-> NoPlayDraws ] :
          m \in SUBSET cand,
          g \in IF cand = {} THEN { Sec(360) } ELSE GestationChoices,
          fc \in FatherCooldownChoices,
          lo \in IF lay THEN LayOffsetChoices ELSE { 0 },
          c \in IF lay THEN ClutchChoices ELSE { 1 },
          inc \in IF lay THEN [ 1..2 -> IncubationChoices ]
                  ELSE { [ n \in 1..2 |-> Sec(120) ] },
          mc \in MotherCooldownChoices,
          ti \in IF live THEN { {} } \cup { { id } : id \in MovedIds(w) } ELSE { {} },
          go \in IF live THEN { {}, AliveIds(w) } ELSE { {} },
          sp \in IF live THEN SwimSpots(w.bounds) ELSE { << 0, 0 >> },
          h \in SUBSET due,
          bs \in IF due = {} THEN { "female" } ELSE { "female", "male" },
          ls \in LifespanChoices }

---------------------------------------------------------------------------
(* Inputs of the public operations *)

RawDeltas == { 0, Sec(450) }

SpeedInputs == { 4 }

FoodInputs ==
    { [ x |-> 50, y |-> 30, amount |-> 1000, ttl |-> Sec(FOOD_DEFAULT_TTL) ],
      [ x |-> -5, y |-> 70, amount |-> 50, ttl |-> Sec(400) ] }

FishCountInputs == { 1, 2 }

NameInputs == { "Alice", " Alice " }

\* ids a caller can pass: those of fish present and one that is absent
IdInputs == FishIds(fish) \cup { 0 }

\* the last call the host made and how it ended
Returned(op, arg) == [ op |-> op, arg |-> arg, ret |-> "return" ]

Thrown(op, arg) == [ op |-> op, arg |-> arg, ret |-> "throw" ]

---------------------------------------------------------------------------
(* Actions *)

Update(rawDelta) ==
    /\ simTimeSec + ScaledDelta(rawDelta, speedMultiplier) <= MaxSimTime
    /\ \E r \in Draws(World, rawDelta) :
         \E w \in { update(World, rawDelta, r) } :
             /\ Len(w.fish) <= MaxFish
             /\ Len(w.eggs) <= MaxEggs
             /\ w.nextFishId <= MaxFishId + 1
             /\ SetWorld(w)
    /\ UNCHANGED hostVars
    /\ call' = Returned("update", rawDelta)

SpawnFood(in) ==
    /\ Len(food) < MaxFood
    /\ Len(events) < MaxEvents
    /\ nextFoodId <= MaxFoodId
    /\ SetWorld(spawnFood(World, in.x, in.y, in.amount, in.ttl))
    /\ UNCHANGED hostVars
    /\ call' = Returned("input", 0)

ToggleFishSelection(id) ==
    /\ SetWorld(toggleFishSelection(World, id))
    /\ UNCHANGED hostVars
    /\ call' = Returned("input", 0)

RenameFish(id, name) ==
    /\ SetWorld(renameFish(World, id, name))
    /\ UNCHANGED hostVars
    /\ call' = [ op |-> "renameFish", arg |-> id,
                 ret |-> IF FindFish(fish, id) = 0 THEN "false" ELSE "true" ]

DiscardFish(id) ==
    /\ SetWorld(discardFish(World, id))
    /\ UNCHANGED hostVars
    /\ call' = [ op |-> "discardFish", arg |-> id,
                 ret |-> IF CorpseIndex(World, id) = 0 THEN "false" ELSE "true" ]

RemoveCorpse(id) ==
    /\ SetWorld(removeCorpse(World, id))
    /\ UNCHANGED hostVars
    /\ call' = [ op |-> "removeCorpse", arg |-> id,
                 ret |-> IF DeadIndex(World, id) = 0 THEN "false" ELSE "true" ]

SetSpeedMultiplier(value) ==
    /\ SetWorld(setSpeedMultiplier(World, value))
    /\ UNCHANGED hostVars
    /\ call' = Returned("setSpeedMultiplier", value)

TogglePause ==
    /\ SetWorld(togglePause(World))
    /\ UNCHANGED hostVars
    /\ call' = Returned("input", 0)

FlushEvents ==
    /\ events # << >>
    /\ SetWorld(flushEvents(World))
    /\ UNCHANGED hostVars
    /\ call' = Returned("input", 0)

\* the draws of setFishCount: the sex and the spawn point of the new fish
\* variant: a new fish is numbered by its place in the array
setFishCount_byIndex(w, count, sex, spot) ==
    LET clamped == Max(1, Min(50, count))
        grow[k \in 0..50] ==
            IF k = 0 THEN w
            ELSE registerFish(grow[k - 1],
                              CreateFish(Len(grow[k - 1].fish) + 1, w.simTimeSec, sex,
                                         0, FALSE, spot,
                                         CHOOSE l \in LifespanChoices : TRUE))
        w1 == IF Len(w.fish) < clamped THEN grow[clamped - Len(w.fish)] ELSE w
    IN  IF Len(w1.fish) > clamped
        THEN [w1 EXCEPT !.fish = SubSeq(@, 1, clamped),
                        !.fishById = @ \ { w1.fish[i].id :
                                             i \in (clamped + 1)..Len(w1.fish) }]
        ELSE w1

setFishCount(w, count, sex, spot) ==
    LET clamped == Max(1, Min(50, count))
        grow[k \in 0..50] ==
            IF k = 0 THEN w
            ELSE registerFish([grow[k - 1] EXCEPT !.nextFishId = @ + 1],
                              CreateFish(grow[k - 1].nextFishId, w.simTimeSec, sex,
                                         0, FALSE, spot,
                                         CHOOSE l \in LifespanChoices : TRUE))
        trimmed(v) ==
            IF Len(v.fish) > clamped
            THEN [v EXCEPT !.fish = SubSeq(@, 1, clamped),
                           !.fishById = @ \ { v.fish[i].id :
                                                i \in (clamped + 1)..Len(v.fish) }]
            ELSE v
        reselected(v) ==
            IF \E i \in DOMAIN v.fish : v.fish[i].id = v.selectedFishId THEN v
            ELSE [v EXCEPT !.selectedFishId =
                     IF Len(v.fish) > 0 THEN v.fish[1].id ELSE Null]
    IN  reselected(trimmed(IF Len(w.fish) < clamped
                           THEN grow[clamped - Len(w.fish)] ELSE w))

\* what #createFish draws for a fish added by setFishCount
NewFishDraws ==
    { [ sex |-> "female", spot |-> << 10, 10 >> ],
      [ sex |-> "male", spot |-> << 90, 50 >> ] }

SetFishCount(count) ==
    /\ Max(1, Min(50, count)) <= MaxFish
    /\ \E in \in NewFishDraws :
         \E w \in { setFishCount(World, count, in.sex, in.spot) } :
             /\ w.nextFishId <= MaxFishId + 1
             /\ SetWorld(w)
    /\ UNCHANGED hostVars
    /\ call' = Returned("input", 0)

InstallWaterFilter ==
    /\ SetWorld(installWaterFilter(World))
    /\ UNCHANGED hostVars
    /\ call' = [ op |-> "install", arg |-> 0,
                 ret |-> IF canInstallWaterFilter(World) THEN "true" ELSE "false" ]

ToggleWaterFilterEnabled ==
    /\ SetWorld(toggleWaterFilterEnabled(World))
    /\ UNCHANGED hostVars
    /\ call' = [ op |-> "toggle", arg |-> 0,
                 ret |-> IF toggleWaterFilterEnabledReturn(World)
                         THEN "true" ELSE "false" ]

MaintainWaterFilter ==
    /\ SetWorld(maintainWaterFilter(World))
    /\ UNCHANGED hostVars
    /\ call' = [ op |-> "maintain", arg |-> 0,
                 ret |-> IF canMaintainWaterFilter(World) THEN "true" ELSE "false" ]

---------------------------------------------------------------------------
(* Persistence: World.toJSON(), World.fromJSON(payload, context) and       *)
(* world.loadFromJSON(snapshot).  A snapshot holds each collection as a    *)
(* value of a kind ("array", "null" or "missing") and each entry as an     *)
(* object of a kind ("object", or "junk" for anything malformed).          *)

SAVE_VERSION == 1

EntryToJSON(e) ==
    [ kind |-> "object", id |-> e.id, position |-> [ x |-> e.x, y |-> e.y ],
      data |-> e ]

CollectionToJSON(items) ==
    [ kind |-> "array", items |-> [ i \in DOMAIN items |-> EntryToJSON(items[i]) ] ]

\* world.toJSON()
toJSON(w) ==
    [ saveVersion |-> SAVE_VERSION,
      simTimeSec |-> w.simTimeSec,
      nextFishId |-> w.nextFishId, nextFoodId |-> w.nextFoodId,
      nextEggId |-> w.nextEggId, nextPlaySessionId |-> w.nextPlaySessionId,
      speedMultiplier |-> w.speedMultiplier, paused |-> w.paused,
      selectedFishId |-> w.selectedFishId,
      initialFishCount |-> w.initialFishCount,
      foodsConsumedCount |-> w.foodsConsumedCount,
      filterUnlocked |-> w.filterUnlocked,
      fish |-> CollectionToJSON(w.fish),
      food |-> CollectionToJSON(w.food),
      eggs |-> CollectionToJSON(w.eggs),
      playSessions |-> w.playSessions,
      matePairNextTryAt |-> w.matePairNextTryAt,
      water |-> [ kind |-> "object", value |-> w.water ] ]

\* variant: every entry is kept
ValidEntry_any(e) == e.id >= 0

\* an entry the loader keeps: an object with a usable id
ValidEntry(e) == e.kind = "object" /\ e.id >= 1

\* variant: the saved position is taken as it is
LoadEntry_asSaved(e, b) ==
    [e.data EXCEPT !.id = e.id, !.x = e.position.x, !.y = e.position.y]

\* one loaded entry: its saved fields, the position held inside the tank
LoadEntry(e, b) ==
    [e.data EXCEPT !.id = e.id,
                   !.x = clamp(e.position.x, 0, b.width),
                   !.y = clamp(e.position.y, 0, b.height)]

\* the entries of a saved collection that load, in order: malformed entries
\* and entries repeating an earlier id are skipped, a collection that is
\* not an array loads as empty
RECURSIVE LoadEntries(_, _, _, _)
LoadEntries(items, k, b, seen) ==
    IF k > Len(items) THEN << >>
    ELSE IF ValidEntry(items[k]) /\ items[k].id \notin seen
    THEN << LoadEntry(items[k], b) >>
           \o LoadEntries(items, k + 1, b, seen \cup { items[k].id })
    ELSE LoadEntries(items, k + 1, b, seen)

LoadCollection(c, b) ==
    IF c.kind = "array" THEN LoadEntries(c.items, 1, b, {}) ELSE << >>

\* the id counter after a load: the saved one, but above every loaded id
LoadCounter(saved, items) ==
    LET ids == { items[i].id : i \in DOMAIN items }
        top == IF ids = {} THEN 0 ELSE CHOOSE m \in ids : \A n \in ids : n <= m
    IN  Max(Max(1, saved), top + 1)

\* world.loadFromJSON(snapshot) on a world of bounds b
loadFromJSON(b, s) ==
    LET fs == LoadCollection(s.fish, b)
        fd == LoadCollection(s.food, b)
        eg == LoadCollection(s.eggs, b)
        wt == IF s.water.kind = "object" THEN s.water.value
              ELSE createInitialWaterState(s.filterUnlocked)
    IN  [ bounds |-> b, fish |-> fs, fishById |-> FishIds(fs),
          food |-> fd, eggs |-> eg,
          nextFoodId |-> LoadCounter(s.nextFoodId, fd),
          nextFishId |-> LoadCounter(s.nextFishId, fs),
          nextEggId |-> LoadCounter(s.nextEggId, eg),
          nextPlaySessionId |-> Max(1, s.nextPlaySessionId),
          simTimeSec |-> Max(0, s.simTimeSec),
          selectedFishId |-> IF s.selectedFishId \in FishIds(fs)
                             THEN s.selectedFishId ELSE Null,
          initialFishCount |-> Max(1, Min(6, s.initialFishCount)),
          foodsConsumedCount |-> Max(0, s.foodsConsumedCount),
          filterUnlocked |-> s.filterUnlocked,
          events |-> << >>,
          playSessions |-> s.playSessions,
          matePairNextTryAt |-> s.matePairNextTryAt,
          water |-> [wt EXCEPT !.hygiene01 = clamp01(@), !.dirt01 = clamp01(@),
                               !.filter01 = clamp01(@)],
          expiredFoodSinceLastWaterUpdate |-> 0,
          paused |-> s.paused,
          speedMultiplier |-> Max(1, Min(6, s.speedMultiplier)) ]

\* World.fromJSON(payload, { width, height, initialFishCount })
fromJSON(s, width, height) ==
    loadFromJSON([ width |-> width, height |-> height ], s)

\* what localStorage holds when nothing was saved
NoPayload == [ kind |-> "null", saveVersion |-> 0, worldState |-> [ saveVersion |-> 0 ] ]

\* variant: the payload is stamped with another version
saveWorldSnapshot_v2(w) ==
    [ kind |-> "json", saveVersion |-> SAVE_VERSION + 1, worldState |-> toJSON(w) ]

\* saveWorldSnapshot(): the payload written to localStorage
saveWorldSnapshot(w) ==
    [ kind |-> "json", saveVersion |-> SAVE_VERSION, worldState |-> toJSON(w) ]

\* loadSavedWorldSnapshot(): the stored payload, or null when there is none,
\* when it does not parse (the catch) or when a version differs
loadSavedWorldSnapshot(raw) ==
    IF raw.kind = "null" THEN NoPayload
    ELSE IF raw.kind # "json" THEN NoPayload
    ELSE IF raw.saveVersion # SAVE_VERSION THEN NoPayload
    ELSE IF raw.worldState.saveVersion # SAVE_VERSION THEN NoPayload
    ELSE raw

\* startSimulation({ savedPayload }): the world of the session; fresh is the
\* world new World(...) would build
startSimulation(savedPayload, fresh) ==
    IF savedPayload.saveVersion = SAVE_VERSION
    THEN fromJSON(savedPayload.worldState, TankWidth, TankHeight)
    ELSE fresh

---------------------------------------------------------------------------
(* The drivers of the page (main.js).  The simulation is stepped by one of *)
(* two callbacks the browser runs: tick, asked for frame by frame with     *)
(* requestAnimationFrame, and the callback of a setInterval while the page *)
(* is hidden.  The browser's side is the set of frame requests that are    *)
(* pending, the set of intervals that run, and the next handle it gives.   *)

\* the page as a record
Host ==
    [ started |-> started, hidden |-> hidden, rafId |-> rafId,
      bgIntervalId |-> bgIntervalId, frameRequests |-> frameRequests,
      intervals |-> intervals, nextHandle |-> nextHandle ]

SetHost(h) ==
    /\ started' = h.started
    /\ hidden' = h.hidden
    /\ rafId' = h.rafId
    /\ bgIntervalId' = h.bgIntervalId
    /\ frameRequests' = h.frameRequests
    /\ intervals' = h.intervals
    /\ nextHandle' = h.nextHandle

\* the page when its script has run: the start screen is shown, no driver
\* is asked for; the specifications of the World alone leave it so
HostAtLoad ==
    /\ started = FALSE
    /\ hidden = FALSE
    /\ rafId = Null
    /\ bgIntervalId = Null
    /\ frameRequests = {}
    /\ intervals = {}
    /\ nextHandle = 1

\* startRaf(): rafId = requestAnimationFrame(tick)
startRaf(h) ==
    IF ~h.started \/ h.rafId # Null THEN h
    ELSE [h EXCEPT !.rafId = h.nextHandle,
                   !.frameRequests = @ \cup { h.nextHandle },
                   !.nextHandle = @ + 1]

\* stopRaf(): cancelAnimationFrame(rafId)
stopRaf(h) ==
    IF h.rafId = Null THEN h
    ELSE [h EXCEPT !.frameRequests = @ \ { h.rafId }, !.rafId = Null]

\* startBackgroundSim(): bgIntervalId = setInterval(..., HIDDEN_TICK_MS)
startBackgroundSim(h) ==
    IF ~h.started \/ h.bgIntervalId # Null THEN h
    ELSE [h EXCEPT !.bgIntervalId = h.nextHandle,
                   !.intervals = @ \cup { h.nextHandle },
                   !.nextHandle = @ + 1]

\* stopBackgroundSim(): clearInterval(bgIntervalId)
stopBackgroundSim(h) ==
    IF h.bgIntervalId = Null THEN h
    ELSE [h EXCEPT !.intervals = @ \ { h.bgIntervalId }, !.bgIntervalId = Null]

\* variant: the page that becomes hidden keeps its frame request
syncDriversToVisibility_keepRaf(h) ==
    IF ~h.started THEN h
    ELSE IF h.hidden
    THEN startBackgroundSim(stopBackgroundSim(h))
    ELSE startRaf(stopRaf(stopBackgroundSim(h)))

\* syncDriversToVisibility()
syncDriversToVisibility(h) ==
    IF ~h.started THEN h
    ELSE IF h.hidden
    THEN startBackgroundSim(stopBackgroundSim(stopRaf(h)))
    ELSE startRaf(stopRaf(stopBackgroundSim(h)))

\* the drivers of restartToStartScreen(): nothing when not started
restartToStartScreen(h) ==
    IF ~h.started THEN h
    ELSE [stopBackgroundSim(stopRaf(h)) EXCEPT !.started = FALSE]

\* the drivers of startSimulation(): started = true, then
\* syncDriversToVisibility(); nothing when started
startDrivers(h) ==
    IF h.started THEN h
    ELSE syncDriversToVisibility([h EXCEPT !.started = TRUE])

\* the drivers of tick(now), run by the browser for the request id: the
\* request is spent; unless the world is gone the next frame is asked for
tickRequest(h, id) ==
    LET spent == [h EXCEPT !.frameRequests = @ \ { id }]
    IN  IF ~h.started THEN spent
        ELSE [spent EXCEPT !.rafId = h.nextHandle,
                           !.frameRequests = @ \cup { h.nextHandle },
                           !.nextHandle = @ + 1]

---------------------------------------------------------------------------
(* Sessions.  A session starts from a save (startSimulation with a saved   *)
(* payload); the saves are those of an earlier session that began with    *)
(* new World(...) and went through the calls below, with these draws.     *)

\* the draws of an uneventful tick: every fish swims to the first wander
\* spot, none tires, no roll succeeds
QuietDraws(w) ==
    [ mate |-> {}, gestation |-> Sec(360), fatherCooldown |-> Sec(120),
      layOffset |-> 20, clutch |-> 2,
      incubation |-> [ n \in 1..2 |-> IF n = 1 THEN Sec(120) ELSE Sec(300) ],
      motherCooldown |-> Sec(600), tire |-> {}, go |-> AliveIds(w),
      spot |-> << 8, 8 >>, hatch |-> {}, babySex |-> "female",
      lifespan |-> Sec(LIFESPAN_MEAN_SEC), play |-> NoPlayDraws ]

\* the world a session step starts from: before a "meal" a pellet is dropped
\* on each fish, before "crumbs" a pellet of the least amount; before
\* "install" the filter is ordered, before "switch" it is switched over
Served(w, step) ==
    LET drop[k \in 0..Len(w.fish)] ==
          IF k = 0 THEN w
          ELSE spawnFood(drop[k - 1], w.fish[k].x, w.fish[k].y,
                         IF step = "crumbs" THEN 50 ELSE 1000,
                         Sec(FOOD_DEFAULT_TTL))
    IN  IF step \in { "meal", "crumbs" } THEN drop[Len(w.fish)]
        ELSE IF step = "install" THEN installWaterFilter(w)
        ELSE IF step = "switch" THEN toggleWaterFilterEnabled(w)
        ELSE w

\* the draws of a session step: in "mate" every roll of the mating scan
\* succeeds; in "tireFar" and "tireNear" the first fish of the tank tires
\* and all swim to the far or the near spot
StepDraws(w, step) ==
    CASE step = "mate" ->
           [QuietDraws(w) EXCEPT !.mate =
              { PairKey(a, b) : << a, b >> \in FishIds(w.fish) \X FishIds(w.fish) }]
      [] step = "tireFar" ->
           [QuietDraws(w) EXCEPT !.tire = { w.fish[1].id }, !.spot = << 92, 52 >>]
      [] step = "tireNear" ->
           [QuietDraws(w) EXCEPT !.tire = { w.fish[1].id }, !.spot = << 8, 8 >>]
      [] OTHER -> QuietDraws(w)

\* the rawDelta of a session step: food is eaten in a tick of no duration,
\* a filter wears through ticks of half an hour
StepDelta(step) ==
    IF step \in { "meal", "crumbs" } THEN 0
    ELSE IF step = "wear" THEN Sec(1800)
    ELSE IF step = "settle" THEN Sec(30)
    ELSE Sec(450)

\* a session: one tick per step; a paused world sits every step out
RECURSIVE Session(_, _)
Session(w, steps) ==
    IF w.paused \/ steps = << >> THEN w
    ELSE Session(Tick(Served(w, Head(steps)), StepDelta(Head(steps)),
                      StepDraws(w, Head(steps))),
                 Tail(steps))

\* a gravid female two ticks after a common meal, due within the next tick
SavedGravid == << "meal", "idle", "idle", "mate" >>

\* a female on her way to lay
SavedLaying == << "meal", "idle", "mate", "idle" >>

\* a clutch laid, its eggs due within the next tick
SavedEggs == << "meal", "idle", "mate", "idle", "idle" >>

\* a fish starved to death and stamped, its corpse not yet decayed
SavedCorpse == << "idle", "tireFar", "tireNear" >>

SavedWorlds ==
    { Session(w, steps) :
        w \in FreshWorlds,
        steps \in { SavedGravid, SavedLaying, SavedEggs, SavedCorpse } }

\* startSimulation({ savedPayload }): World.fromJSON at the viewport size
SessionStarts ==
    { startSimulation(loadSavedWorldSnapshot(saveWorldSnapshot(w)), w) :
        w \in SavedWorlds }

Init ==
    /\ \E w \in SessionStarts :
         /\ bounds = w.bounds
         /\ fish = w.fish
         /\ fishById = w.fishById
         /\ food = w.food
         /\ eggs = w.eggs
         /\ nextFoodId = w.nextFoodId
         /\ nextFishId = w.nextFishId
         /\ nextEggId = w.nextEggId
         /\ nextPlaySessionId = w.nextPlaySessionId
         /\ simTimeSec = w.simTimeSec
         /\ selectedFishId = w.selectedFishId
         /\ initialFishCount = w.initialFishCount
         /\ foodsConsumedCount = w.foodsConsumedCount
         /\ filterUnlocked = w.filterUnlocked
         /\ events = w.events
         /\ playSessions = w.playSessions
         /\ matePairNextTryAt = w.matePairNextTryAt
         /\ water = w.water
         /\ expiredFoodSinceLastWaterUpdate = w.expiredFoodSinceLastWaterUpdate
         /\ paused = w.paused
         /\ speedMultiplier = w.speedMultiplier
    /\ HostAtLoad
    /\ call = Returned("load", 0)

\* the worlds new World(...) can build; one stands for all of them when the
\* save is used and none is built
NeededFresh(savedPayload) ==
    IF savedPayload.saveVersion = SAVE_VERSION
    THEN { CHOOSE fresh \in FreshWorlds : TRUE }
    ELSE FreshWorlds

\* the page is opened on what localStorage holds; code tells, in the record
\* of the call, what was done to the stored item
StartSimulation(raw, code) ==
    /\ \E fresh \in NeededFresh(loadSavedWorldSnapshot(raw)) :
         SetWorld(startSimulation(loadSavedWorldSnapshot(raw), fresh))
    /\ UNCHANGED hostVars
    /\ call' = IF loadSavedWorldSnapshot(raw).saveVersion = SAVE_VERSION
               THEN Returned("load", code) ELSE Returned("new", code)

\* save, then open the page again at the same viewport size
Reload == StartSimulation(saveWorldSnapshot(World), 0)

Next ==
    \/ \E d \in RawDeltas : Update(d)
    \/ \E in \in FoodInputs : SpawnFood(in)
    \/ \E v \in SpeedInputs : SetSpeedMultiplier(v)
    \/ TogglePause
    \/ Reload

Spec == Init /\ [][Next]_vars

\* the population of the tank under the user's hand
NextPopulation ==
    \/ \E d \in RawDeltas : Update(d)
    \/ \E n \in FishCountInputs : SetFishCount(n)
    \/ \E id \in IdInputs : DiscardFish(id)
    \/ \E id \in IdInputs : RemoveCorpse(id)
    \/ Reload

SpecPopulation == Init /\ [][NextPopulation]_vars

\* the tank left to itself and to feeding: the frame loop keeps stepping
\* the visible simulation
NextFrames ==
    \/ \E d \in RawDeltas : Update(d)
    \/ \E in \in FoodInputs : SpawnFood(in)

\* a step of Update(Sec(450)), told by the record of the call; it is
\* possible as long as the tick fits the horizon
Frame ==
    /\ ~paused
    /\ simTimeSec + ScaledDelta(Sec(450), speedMultiplier) <= MaxSimTime
    /\ UNCHANGED hostVars
    /\ call' = Returned("update", Sec(450))
    /\ simTimeSec' = simTimeSec + ScaledDelta(Sec(450), speedMultiplier)

SpecFair == Init /\ [][NextFrames]_vars /\ WF_<<call, simTimeSec>>(Frame)

---------------------------------------------------------------------------
(* Damaged saves.  What is done to a saved collection: 0 it is kept, 1 it  *)
(* is null, 2 it is missing, 3 its first entry is not an object, 4 every  *)
(* entry lies far outside the tank.  A code has one digit per collection: *)
(* hundreds for the fish, tens for the food, units for the eggs.          *)

DamageCodes == { 100 * f + 10 * d + e : f \in 0..4, d \in 0..4, e \in 0..4 }

Damaged(c, mode) ==
    CASE mode = 1 -> [ kind |-> "null", items |-> << >> ]
      [] mode = 2 -> [ kind |-> "missing", items |-> << >> ]
      [] mode = 3 -> [c EXCEPT !.items = [ i \in DOMAIN @ |->
                        IF i = 1 THEN [@[i] EXCEPT !.kind = "junk"] ELSE @[i] ]]
      [] mode = 4 -> [c EXCEPT !.items = [ i \in DOMAIN @ |->
                        [@[i] EXCEPT !.position = [ x |-> -1000, y |-> 9999 ]] ]]
      [] OTHER -> c

DamagedSnapshot(s, code) ==
    [s EXCEPT !.fish = Damaged(@, code \div 100),
              !.food = Damaged(@, (code \div 10) % 10),
              !.eggs = Damaged(@, code % 10)]

\* the stored item: the save of the world with a damaged snapshot
Stored(w, code) ==
    [saveWorldSnapshot(w) EXCEPT !.worldState = DamagedSnapshot(@, code)]

\* a stored item that is no save of this version: 1 nothing stored, 2 text
\* that does not parse, 3 a payload of another version, 4 a snapshot of
\* another version
Unusable(w, k) ==
    CASE k = 1 -> NoPayload
      [] k = 2 -> [ kind |-> "garbage", saveVersion |-> 0,
                    worldState |-> [ saveVersion |-> 0 ] ]
      [] k = 3 -> [saveWorldSnapshot(w) EXCEPT !.saveVersion = 0]
      [] OTHER -> [saveWorldSnapshot(w) EXCEPT !.worldState.saveVersion = 0]

LoadDamaged(code) == StartSimulation(Stored(World, code), code)

LoadUnusable(k) == StartSimulation(Unusable(World, k), k)

NextLoad ==
    \/ \E code \in DamageCodes : LoadDamaged(code)
    \/ \E k \in 1..4 : LoadUnusable(k)
    \/ \E in \in FoodInputs : SpawnFood(in)

SpecLoad == Init /\ [][NextLoad]_vars

---------------------------------------------------------------------------
(* The engine of src/engine: World of world.js over Fish of fish.js.       *)

FISH_DEAD_TO_SKELETON_SEC == 120
FISH_SKELETON_TO_REMOVE_SEC == 120

\* new World(width, height, initialFishCount) of world.js: the fish come
\* from setFishCount, newborn and fed
EngineWorld(width, height, count, sexes, spots) ==
    LET n == Max(1, Min(50, count))
    IN  [ bounds |-> [ width |-> width, height |-> height ],
          fish |-> [ i \in 1..n |->
                       CreateFish(i, 0, sexes[i], 0, FALSE, spots[i],
                                  CHOOSE l \in LifespanChoices : TRUE) ],
          fishById |-> 1..n, food |-> << >>, eggs |-> << >>,
          nextFoodId |-> 1, nextFishId |-> n + 1, nextEggId |-> 1,
          nextPlaySessionId |-> 1, simTimeSec |-> 0, selectedFishId |-> 1,
          initialFishCount |-> n, foodsConsumedCount |-> 0,
          filterUnlocked |-> FALSE, events |-> << >>, playSessions |-> << >>,
          matePairNextTryAt |-> {},
          water |-> createInitialWaterState(FALSE),
          expiredFoodSinceLastWaterUpdate |-> 0,
          paused |-> FALSE, speedMultiplier |-> 2 ]

EngineWorlds ==
    { EngineWorld(TankWidth, TankHeight, 2, sexes, spots) :
        sexes \in [ 1..2 -> { "female", "male" } ],
        spots \in { sp \in [ 1..2 -> SpawnSpots(TankBounds) ] : sp[1] # sp[2] } }

\* Fish.applySteering(dt) of fish.js reads world and SEEK_FORCE_MULTIPLIER,
\* names the module declares nowhere, when the fish seeks a pellet: a
\* ReferenceError
steeringThrows(f) ==
    f.behavior.mode = "seekFood" /\ f.behavior.targetFoodId # Null

\* #updateFishLifeState() of world.js: a corpse turns to a skeleton, a
\* skeleton is taken out of the tank
engineFishLifeState(w) ==
    LET now == w.simTimeSec
        stamped(f) == IF f.deadAtSec = Null THEN now ELSE f.deadAtSec
        bones(f) == IF f.skeletonAtSec = Null THEN now ELSE f.skeletonAtSec
        gone(f) == /\ f.lifeState = "SKELETON"
                   /\ now - bones(f) >= Sec(FISH_SKELETON_TO_REMOVE_SEC)
        aged(f) ==
            IF f.lifeState = "DEAD"
            THEN IF now - stamped(f) >= Sec(FISH_DEAD_TO_SKELETON_SEC)
                 THEN [f EXCEPT !.deadAtSec = stamped(f), !.lifeState = "SKELETON",
                                !.skeletonAtSec = now, !.behavior = DeadSinkBehavior]
                 ELSE [f EXCEPT !.deadAtSec = stamped(f)]
            ELSE IF f.lifeState = "SKELETON"
            THEN [f EXCEPT !.skeletonAtSec = bones(f)]
            ELSE f
        kept == SelectSeq(w.fish, LAMBDA f : ~gone(f))
    IN  [w EXCEPT !.fish = [ i \in DOMAIN kept |-> aged(kept[i]) ],
                  !.fishById = FishIds(kept),
                  !.selectedFishId =
                     IF \E i \in DOMAIN w.fish : gone(w.fish[i]) /\ w.fish[i].id = @
                     THEN Null ELSE @]

\* #updateWaterHygiene(dtSec) of world.js under config.js, which names none
\* of the water rates: they default to 0 and the water stays as it is
engineWaterHygiene(w, dt) == [w EXCEPT !.expiredFoodSinceLastWaterUpdate = 0]

\* update(rawDelta) of world.js: the world it leaves and how it ends.  When
\* a fish seeks a pellet the steering loop throws at that fish, and the
\* phases after it do not run.
engineUpdate(w, rawDelta, r) ==
    LET delta == ScaledDelta(rawDelta, w.speedMultiplier)
        clock(v) == [v EXCEPT !.simTimeSec = @ + delta]
        metabolism(v) ==
            [v EXCEPT !.fish = [ i \in DOMAIN @ |->
               updateMetabolism(@[i], delta, @[i].id \in r.tire) ]]
        decisions(v) ==
            [v EXCEPT !.fish = [ i \in DOMAIN @ |-> decideBehavior(@[i], v) ]]
        seekers(v) == { i \in DOMAIN v.fish : steeringThrows(v.fish[i]) }
        first(v) == CHOOSE i \in seekers(v) : \A j \in seekers(v) : i <= j
        steered(v, upTo) ==
            [v EXCEPT !.fish = [ i \in DOMAIN @ |->
               IF i < upTo
               THEN applySteering(@[i], v, delta, @[i].id \in r.go, r.spot)
               ELSE @[i] ]]
        rest(v) ==
            engineWaterHygiene(
              updateFood(engineFishLifeState(consumeAll(v, 1)), delta), delta)
        outcome(v) ==
            IF seekers(v) # {}
            THEN [ world |-> steered(v, first(v)), ret |-> "throw" ]
            ELSE [ world |-> rest(steered(v, Len(v.fish) + 1)), ret |-> "return" ]
    IN  IF w.paused THEN [ world |-> w, ret |-> "return" ]
        ELSE outcome(decisions(metabolism(clock(w))))

EngineUpdate(rawDelta) ==
    /\ simTimeSec + ScaledDelta(rawDelta, speedMultiplier) <= MaxSimTime
    /\ \E r \in Draws(World, rawDelta) :
         \E res \in { engineUpdate(World, rawDelta, r) } :
             /\ SetWorld(res.world)
             /\ UNCHANGED hostVars
             /\ call' = [ op |-> "update", arg |-> rawDelta, ret |-> res.ret ]

EngineInit ==
    /\ \E w \in EngineWorlds :
         /\ bounds = w.bounds
         /\ fish = w.fish
         /\ fishById = w.fishById
         /\ food = w.food
         /\ eggs = w.eggs
         /\ nextFoodId = w.nextFoodId
         /\ nextFishId = w.nextFishId
         /\ nextEggId = w.nextEggId
         /\ nextPlaySessionId = w.nextPlaySessionId
         /\ simTimeSec = w.simTimeSec
         /\ selectedFishId = w.selectedFishId
         /\ initialFishCount = w.initialFishCount
         /\ foodsConsumedCount = w.foodsConsumedCount
         /\ filterUnlocked = w.filterUnlocked
         /\ events = w.events
         /\ playSessions = w.playSessions
         /\ matePairNextTryAt = w.matePairNextTryAt
         /\ water = w.water
         /\ expiredFoodSinceLastWaterUpdate = w.expiredFoodSinceLastWaterUpdate
         /\ paused = w.paused
         /\ speedMultiplier = w.speedMultiplier
    /\ HostAtLoad
    /\ call = NoCall

EngineNext ==
    \/ \E d \in RawDeltas : EngineUpdate(d)
    \/ \E in \in FoodInputs : SpawnFood(in)

SpecEngine == EngineInit /\ [][EngineNext]_vars

---------------------------------------------------------------------------
(* The water filter in use.  The tank is met late in a long session: with  *)
(* the filter still locked, with it unlocked by eight pellets eaten, with  *)
(* it installed long ago and worn close to the depletion threshold, or     *)
(* with a worn filter that was switched off and left the water dirty.      *)

MaxFilterTime == 36360

Repeat(step, n) == [ i \in 1..n |-> step ]

FilterLocked == Repeat("wear", 10) \o Repeat("settle", 4)

FilterUnlocked == Repeat("crumbs", 4) \o FilterLocked

FilterWorn ==
    Repeat("crumbs", 4) \o << "idle" >> \o Repeat("settle", 3) \o << "install" >>
        \o Repeat("wear", 9) \o << "idle", "idle", "settle" >>

FilterSoiled ==
    Repeat("crumbs", 4) \o Repeat("wear", 2) \o << "idle" >> \o Repeat("settle", 12)
        \o << "install", "switch" >> \o Repeat("wear", 7) \o Repeat("settle", 7)

FilterWorlds ==
    { Session(w, steps) :
        w \in FreshWorlds,
        steps \in { FilterLocked, FilterUnlocked, FilterWorn, FilterSoiled } }

\* the variables hold the world w
WorldIs(w) ==
    /\ bounds = w.bounds
    /\ fish = w.fish
    /\ fishById = w.fishById
    /\ food = w.food
    /\ eggs = w.eggs
    /\ nextFoodId = w.nextFoodId
    /\ nextFishId = w.nextFishId
    /\ nextEggId = w.nextEggId
    /\ nextPlaySessionId = w.nextPlaySessionId
    /\ simTimeSec = w.simTimeSec
    /\ selectedFishId = w.selectedFishId
    /\ initialFishCount = w.initialFishCount
    /\ foodsConsumedCount = w.foodsConsumedCount
    /\ filterUnlocked = w.filterUnlocked
    /\ events = w.events
    /\ playSessions = w.playSessions
    /\ matePairNextTryAt = w.matePairNextTryAt
    /\ water = w.water
    /\ expiredFoodSinceLastWaterUpdate = w.expiredFoodSinceLastWaterUpdate
    /\ paused = w.paused
    /\ speedMultiplier = w.speedMultiplier

FilterInit ==
    /\ \E w \in FilterWorlds : WorldIs(w)
    /\ HostAtLoad
    /\ call = NoCall

\* the frames the host passes on: positive, of 6 s or of 30 s here
FilterDeltas == { Sec(6), Sec(30) }

FilterUpdate(rawDelta) ==
    /\ simTimeSec + ScaledDelta(rawDelta, speedMultiplier) <= MaxFilterTime
    /\ \E r \in Draws(World, rawDelta) : SetWorld(update(World, rawDelta, r))
    /\ UNCHANGED hostVars
    /\ call' = Returned("update", rawDelta)

NextFilter ==
    \/ \E d \in FilterDeltas : FilterUpdate(d)
    \/ InstallWaterFilter
    \/ MaintainWaterFilter
    \/ ToggleWaterFilterEnabled

SpecFilter == FilterInit /\ [][NextFilter]_vars

---------------------------------------------------------------------------
(* The fish panel in use: fish are selected and renamed, and the session   *)
(* is saved and loaded again.                                              *)

NextNames ==
    \/ \E id \in IdInputs, name \in NameInputs : RenameFish(id, name)
    \/ \E id \in IdInputs : ToggleFishSelection(id)
    \/ Reload

SpecNames == Init /\ [][NextNames]_vars

---------------------------------------------------------------------------
(* The clock in use: the speed is set below, inside and above its range,   *)
(* the simulation is paused and resumed, and update is called by a caller  *)
(* that passes any finite rawDelta, negative ones included.                *)

MinClockTime == 35340

MaxClockTime == 37140

\* speeds in halves: 0x, 1.5x and 4x
ClockSpeeds == { 0, 3, 8 }

ClockDeltas == { Sec(150), 0 - Sec(150) }

ClockUpdate(rawDelta) ==
    /\ simTimeSec + ScaledDelta(rawDelta, speedMultiplier) \in MinClockTime..MaxClockTime
    /\ \E r \in Draws(World, rawDelta) : SetWorld(update(World, rawDelta, r))
    /\ UNCHANGED hostVars
    /\ call' = Returned("update", rawDelta)

NextClock ==
    \/ \E d \in ClockDeltas : ClockUpdate(d)
    \/ \E v \in ClockSpeeds : SetSpeedMultiplier(v)
    \/ TogglePause

\* late in a session, when the first fish are gone and the tank stands empty
ClockInit ==
    /\ \E w \in FreshWorlds : WorldIs(Session(w, FilterLocked))
    /\ HostAtLoad
    /\ call = NoCall

SpecClock == ClockInit /\ [][NextClock]_vars

---------------------------------------------------------------------------
(* A breeding season: a fed pair is watched from before its mating until   *)
(* the mother is READY again.                                              *)

MaxReproTime == 6300

BeforeMating == << "meal", "idle", "idle" >>

ReproInit ==
    /\ \E w \in FreshWorlds : WorldIs(Session(w, BeforeMating))
    /\ HostAtLoad
    /\ call = NoCall

ReproUpdate(rawDelta) ==
    /\ simTimeSec + ScaledDelta(rawDelta, speedMultiplier) <= MaxReproTime
    /\ \E r \in Draws(World, rawDelta) : SetWorld(update(World, rawDelta, r))
    /\ UNCHANGED hostVars
    /\ call' = Returned("update", rawDelta)

NextRepro == ReproUpdate(Sec(450))

SpecRepro == ReproInit /\ [][NextRepro]_vars

---------------------------------------------------------------------------
(* Properties *)

\* the state of the world, without the record of the last call
worldVars ==
    << bounds, fish, fishById, food, eggs, nextFoodId, nextFishId, nextEggId,
       nextPlaySessionId, simTimeSec, selectedFishId, initialFishCount,
       foodsConsumedCount, filterUnlocked, events, playSessions,
       matePairNextTryAt, water, expiredFoodSinceLastWaterUpdate, paused,
       speedMultiplier >>

C2_DueEggsResolved ==
    [][ (call'.op = "update" /\ call'.arg > 0 /\ ~paused) =>
          LET due == { i \in DOMAIN eggs : eggs[i].hatchAtSec <= simTimeSec' }
              born == { j \in DOMAIN fish' : fish'[j].id \notin FishIds(fish) }
          IN  /\ \A i \in due : \A j \in DOMAIN eggs' : eggs'[j].id # eggs[i].id
              /\ \A j \in DOMAIN eggs' : eggs'[j].hatchAtSec > simTimeSec'
              /\ Cardinality(born) <= Cardinality(due) ]_vars

\* a clutch of two resolved by one update: one egg hatched, one failed
C2_Witness ==
    /\ call = Returned("update", Sec(450))
    /\ eggs = << >>
    /\ nextEggId = 3
    /\ nextFishId = 4
    /\ Len(fish) = 3

\* C3: a live GRAVID female whose due time is at or before the clock an
\* unpaused update advances to is LAYING after that update, or in COOLDOWN
\* with eggs laid; and no step takes a female from GRAVID to READY.
C3_GravidProgresses ==
    [][ /\ (call'.op = "update" /\ ~paused) =>
             \A i \in DOMAIN fish : \A j \in DOMAIN fish' :
               ( /\ fish'[j].id = fish[i].id
                 /\ fish[i].lifeState = "ALIVE" /\ fish'[j].lifeState = "ALIVE"
                 /\ fish[i].sex = "female"
                 /\ fish[i].repro.state = "GRAVID"
                 /\ fish[i].repro.dueAtSec # Null
                 /\ fish[i].repro.dueAtSec <= simTimeSec' )
               => \/ fish'[j].repro.state = "LAYING"
                  \/ fish'[j].repro.state = "COOLDOWN" /\ nextEggId' > nextEggId
        /\ \A i \in DOMAIN fish : \A j \in DOMAIN fish' :
             (fish'[j].id = fish[i].id /\ fish[i].repro.state = "GRAVID")
             => fish'[j].repro.state # "READY" ]_vars

\* a female who was not yet due before the last update and is LAYING after it
C3_Witness ==
    /\ call = Returned("update", Sec(450))
    /\ \E i \in DOMAIN fish :
         /\ fish[i].repro.state = "LAYING"
         /\ fish[i].repro.dueAtSec <= simTimeSec
         /\ fish[i].repro.dueAtSec > simTimeSec - ScaledDelta(Sec(450), speedMultiplier)

\* C8: an unpaused update(d) at speed multiplier s advances simTimeSec by
\* d * s * 0.5 and lowers the ttl of every pellet that stays by that much.
C8_HalfLifeScale ==
    [][ (call'.op = "update" /\ ~paused) =>
          LET lifeDt == ScaledDelta(call'.arg, speedMultiplier) \div 2
          IN  /\ simTimeSec' = simTimeSec + lifeDt
              /\ \A i \in DOMAIN food : \A j \in DOMAIN food' :
                   food'[j].id = food[i].id => food'[j].ttl = food[i].ttl - lifeDt ]_vars

\* C9: an update of a paused world changes nothing of the world.
C9_PausedUpdateNoOp ==
    [][ (call'.op = "update" /\ paused) => UNCHANGED worldVars ]_vars

\* a paused world holding a pellet and eggs, just updated with a positive delta
C9_Witness ==
    /\ call = Returned("update", Sec(450))
    /\ paused
    /\ Len(food) > 0
    /\ Len(eggs) > 0

\* C4: while the world keeps being updated unpaused with positive deltas, a
\* dead fish is eventually out of the fish collection, whatever the user
\* does; stated for every fish found dead while a tick of positive delta
\* still fits the horizon.
C4_CorpseLeaves ==
    \A id \in 1..MaxFishId :
      ( /\ \E i \in DOMAIN fish : fish[i].id = id /\ fish[i].lifeState = "DEAD"
        /\ simTimeSec + ScaledDelta(Sec(450), speedMultiplier) <= MaxSimTime )
      ~> (id \notin FishIds(fish))

\* an update has just taken a decayed corpse out and soiled the water with it
C4_Witness ==
    /\ call = Returned("update", Sec(450))
    /\ Len(fish) = 1
    /\ nextFishId = 3
    /\ water.dirt01 >= CORPSE_DIRT_MAX01
    /\ \A i \in DOMAIN fish : fish[i].lifeState = "ALIVE"

\* C5: the fish of the collection have pairwise different ids, all below
\* the counter; the counter never goes down; and a fish that enters the
\* collection carries an id at or above the counter's value before the
\* step, hence above every id issued before.
C5_FishIdsFresh ==
    /\ \A i, j \in DOMAIN fish : i # j => fish[i].id # fish[j].id
    /\ \A i \in DOMAIN fish : fish[i].id < nextFishId
    /\ [][ /\ \A i, j \in DOMAIN fish' : i # j => fish'[i].id # fish'[j].id
           /\ \A i \in DOMAIN fish' : fish'[i].id < nextFishId'
           /\ nextFishId' >= nextFishId
           /\ \A j \in DOMAIN fish' :
                fish'[j].id \notin FishIds(fish) => fish'[j].id >= nextFishId ]_vars

\* a world loaded after fish 3 left it and fish 4 entered it
C5_Witness ==
    /\ call.op = "load"
    /\ 4 \in FishIds(fish)
    /\ 3 \notin FishIds(fish)

\* C6: loading a snapshot whose fish, food or egg collection is null or
\* missing, or holds an entry that is not an object, returns normally; a
\* collection that is no array loads as empty, and the loaded entries are
\* the well-formed entries of the snapshot, in order.
C6_DefensiveLoad ==
    [][ (call'.op = "load") =>
          \A s \in { DamagedSnapshot(toJSON(World), call'.arg) } :
            LET wellFormed(c) == SelectSeq(c.items, LAMBDA e : e.kind = "object")
                ids(items) == [ i \in DOMAIN items |-> items[i].id ]
            IN  /\ call'.ret = "return"
                /\ s.fish.kind # "array" => fish' = << >>
                /\ s.food.kind # "array" => food' = << >>
                /\ s.eggs.kind # "array" => eggs' = << >>
                /\ s.fish.kind = "array" => ids(fish') = ids(wellFormed(s.fish))
                /\ s.food.kind = "array" => ids(food') = ids(wellFormed(s.food))
                /\ s.eggs.kind = "array" => ids(eggs') = ids(wellFormed(s.eggs)) ]_vars

\* a load of a save whose fish were null, whose food was missing and whose
\* first egg was no object: no fish, no food, the second egg
C6_Witness ==
    /\ call = Returned("load", 123)
    /\ fish = << >>
    /\ food = << >>
    /\ Len(eggs) = 1
    /\ eggs[1].id = 2

\* C7: after a load every fish, pellet and egg lies inside the tank.
C7_LoadedInsideTank ==
    call.op = "load" =>
      /\ \A i \in DOMAIN fish :
           fish[i].x >= 0 /\ fish[i].x <= bounds.width
           /\ fish[i].y >= 0 /\ fish[i].y <= bounds.height
      /\ \A i \in DOMAIN food :
           food[i].x >= 0 /\ food[i].x <= bounds.width
           /\ food[i].y >= 0 /\ food[i].y <= bounds.height
      /\ \A i \in DOMAIN eggs :
           eggs[i].x >= 0 /\ eggs[i].x <= bounds.width
           /\ eggs[i].y >= 0 /\ eggs[i].y <= bounds.height

\* a load of a save whose fish, pellet and eggs all lay at (-1000, 9999)
C7_Witness ==
    /\ call = Returned("load", 444)
    /\ Len(fish) > 0 /\ Len(food) > 0 /\ Len(eggs) > 0
    /\ \A i \in DOMAIN fish : fish[i].x = 0 /\ fish[i].y = bounds.height
    /\ \A i \in DOMAIN eggs : eggs[i].x = 0 /\ eggs[i].y = bounds.height

\* C10: every call of update returns normally.
C10_UpdateReturns == call.op = "update" => call.ret = "return"

\* the filter timers that are running
ActiveFilterTimers ==
    { t \in { "installProgress01", "maintenanceProgress01", "maintenanceCooldownSec" } :
        water[t] > 0 }

\* C11: under any interleaving of installWaterFilter, maintainWaterFilter,
\* toggleWaterFilterEnabled and update, at most one of the three filter
\* timers (installation, maintenance, cooldown) is running
C11_OneFilterTimer == Cardinality(ActiveFilterTimers) <= 1

\* a maintenance was asked for and refused while the cooldown was running
C11_Witness ==
    /\ call.op = "maintain" /\ call.ret = "false"
    /\ ActiveFilterTimers = { "maintenanceCooldownSec" }

C13_MaintainGuarded ==
    [][call'.op = "maintain" =>
         IF /\ water.filterInstalled
            /\ water.installProgress01 = 0
            /\ water.maintenanceProgress01 = 0
            /\ water.maintenanceCooldownSec = 0
         THEN /\ call'.ret = "true"
              /\ water'.maintenanceProgress01 > 0
              /\ water' = [water EXCEPT
                             !.maintenanceProgress01 = water'.maintenanceProgress01]
         ELSE /\ call'.ret = "false"
              /\ water' = water]_vars

\* a maintenance was asked for while one was under way, and refused
C13_Witness ==
    /\ call.op = "maintain" /\ call.ret = "false"
    /\ water.maintenanceProgress01 > 1

C15_LiveFishKept ==
    [][call'.op \in { "discardFish", "removeCorpse" } =>
         /\ \A i \in DOMAIN fish :
              fish[i].lifeState = "ALIVE" => \E j \in DOMAIN fish' : fish'[j] = fish[i]
         /\ (\A i \in DOMAIN fish :
               fish[i].id = call'.arg => fish[i].lifeState = "ALIVE") =>
              /\ call'.ret = "false"
              /\ fish' = fish
              /\ fishById' = fishById
              /\ selectedFishId' = selectedFishId]_vars

\* discarding a live fish was refused, in a tank that holds a corpse too
C15_Witness ==
    /\ call.op = "discardFish" /\ call.ret = "false"
    /\ \E i \in DOMAIN fish : fish[i].id = call.arg /\ fish[i].lifeState = "ALIVE"
    /\ \E i \in DOMAIN fish : fish[i].lifeState # "ALIVE"

\* C16: after any sequence of renameFish calls and loads, no two fish of the
\* collection have the same non-empty name
C16_NamesUnique ==
    \A i, j \in DOMAIN fish :
        (i # j /\ fish[i].name # "") => fish[i].name # fish[j].name

\* C17: after setSpeedMultiplier(v) the speed multiplier lies in [0.5, 3]:
\* a value below 0.5 becomes 0.5, a value above 3 becomes 3, a value inside
\* the range is kept (speeds in halves)
C17_SpeedClamped ==
    [][call'.op = "setSpeedMultiplier" =>
         /\ speedMultiplier' \in 1..6
         /\ call'.arg < 1 => speedMultiplier' = 1
         /\ call'.arg > 6 => speedMultiplier' = 6
         /\ call'.arg \in 1..6 => speedMultiplier' = call'.arg]_vars

\* the speed was set to 4x and is 3x
C17_Witness ==
    call.op = "setSpeedMultiplier" /\ call.arg > 6 /\ speedMultiplier = 6

\* C18: simTimeSec never decreases, across any sequence of public operations
\* and for any finite rawDelta passed to update
C18_ClockMonotonic == [][simTimeSec' >= simTimeSec]_vars

\* the phases of a tick named in the order of the code; the particles and
\* the bubbles touch no state kept here and are left out.  The
\* reproduction scan with the laying of eggs is #updateReproduction, the
\* hatching of eggs is the egg tick between the food and the water tick.
UpdatePhases ==
    << "clock", "updateLifeCycle", "updatePlayState", "updatePlaySessions",
       "tryExpandPlaySessions", "tryStartPlaySessions",
       "updateReproduction", "updateMetabolism",
       "decideBehavior", "applySteering", "tryConsumeFood",
       "updateFishLifeState", "updateFood", "updateEggs", "updateWaterHygiene" >>

\* one phase, run for the whole world
RunPhase(name, v, delta, r) ==
    CASE name = "clock" -> [v EXCEPT !.simTimeSec = @ + delta]
      [] name = "updateLifeCycle" -> updateLifeCycleAll(v)
      [] name = "updatePlayState" -> updatePlayStateAll(v)
      [] name = "updatePlaySessions" -> updatePlaySessions(v)
      [] name = "tryExpandPlaySessions" -> tryExpandPlaySessions(v, r.play)
      [] name = "tryStartPlaySessions" -> tryStartPlaySessions(v, r.play)
      [] name = "updateReproduction" -> updateReproduction(v, delta, r)
      [] name = "updateMetabolism" ->
           [v EXCEPT !.fish = [ i \in DOMAIN @ |->
              updateMetabolism(@[i], delta, @[i].id \in r.tire) ]]
      [] name = "decideBehavior" ->
           [v EXCEPT !.fish = [ i \in DOMAIN @ |-> decideBehavior(@[i], v) ]]
      [] name = "applySteering" ->
           [v EXCEPT !.fish = [ i \in DOMAIN @ |->
              applySteering(@[i], v, delta, @[i].id \in r.go, r.spot) ]]
      [] name = "tryConsumeFood" -> consumeAll(v, 1)
      [] name = "updateFishLifeState" -> updateFishLifeState(v)
      [] name = "updateFood" -> updateFood(v, delta)
      [] name = "updateEggs" -> updateEggs(v, delta, r)
      [] name = "updateWaterHygiene" -> updateWaterHygiene(v, delta)

RECURSIVE RunPhases(_, _, _, _)
RunPhases(v, names, delta, r) ==
    IF names = << >> THEN v
    ELSE RunPhases(RunPhase(Head(names), v, delta, r), Tail(names), delta, r)

ReproStep(a, b) ==
    \/ a = b
    \/ << a, b >> \in { << "READY", "GRAVID" >>, << "GRAVID", "LAYING" >>,
                        << "LAYING", "COOLDOWN" >>, << "COOLDOWN", "READY" >>,
                        << "GRAVID", "COOLDOWN" >> }

\* C20: the repro state of a fish changes only along READY -> GRAVID ->
\* LAYING -> COOLDOWN -> READY, and a male is never GRAVID or LAYING
C20_ReproCycle ==
    /\ [](\A i \in DOMAIN fish :
            fish[i].sex = "male" => fish[i].repro.state \notin { "GRAVID", "LAYING" })
    /\ [][\A i \in DOMAIN fish, j \in DOMAIN fish' :
            fish[i].id = fish'[j].id =>
               ReproStep(fish[i].repro.state, fish'[j].repro.state)]_vars

\* a female that mated, laid and rested is READY again; no male has left READY
C20_Witness ==
    /\ call.op = "update"
    /\ \E i \in DOMAIN fish :
         /\ fish[i].sex = "female" /\ fish[i].repro.state = "READY"
         /\ fish[i].repro.cooldownUntilSec > 0
    /\ \E i \in DOMAIN fish : fish[i].sex = "male" /\ fish[i].repro.cooldownUntilSec > 0

\* the fish as the mating scan of the coming update finds them: the clock
\* advanced to now, the life cycle refreshed, nothing else done yet
AtMatingScan(now) == updateLifeCycleAll([World EXCEPT !.simTimeSec = now]).fish

\* what #tryMatePair asks of either fish of a pair
MayMate(f, now) ==
    /\ f.lifeState = "ALIVE" /\ f.lifeStage = "ADULT" /\ f.hungerState = "FED"
    /\ f.wellbeing01 >= 80
    /\ water.hygiene01 >= 600000
    /\ f.repro.state = "READY"
    /\ now >= f.repro.cooldownUntilSec

\* C21: a female becomes GRAVID only in a tick in which she and the male
\* are both ALIVE, ADULT and FED with wellbeing of at least 0.8, the water
\* hygiene is at least 0.6, both are READY and past their cooldownUntilSec,
\* and the two are of opposite sex and within the encounter radius (70 px)
C21_MatingEligible ==
    [][\A j \in DOMAIN fish' :
         ( /\ fish'[j].repro.state = "GRAVID"
           /\ \E i \in DOMAIN fish :
                fish[i].id = fish'[j].id /\ fish[i].repro.state # "GRAVID" ) =>
         \E a, b \in DOMAIN AtMatingScan(simTimeSec') :
            LET she == AtMatingScan(simTimeSec')[a]
                he == AtMatingScan(simTimeSec')[b]
            IN  /\ she.id = fish'[j].id /\ he.id = fish'[j].repro.fatherId
                /\ she.sex = "female" /\ he.sex = "male"
                /\ MayMate(she, simTimeSec') /\ MayMate(he, simTimeSec')
                /\ Dist2(she.x, she.y, he.x, he.y) <= 70 * 70]_vars

\* an update has made a female GRAVID by a male that rests from it
C21_Witness ==
    /\ call.op = "update"
    /\ \E i, j \in DOMAIN fish :
         /\ fish[i].repro.state = "GRAVID" /\ fish[i].repro.fatherId = fish[j].id
         /\ fish[j].sex = "male" /\ fish[j].repro.cooldownUntilSec > simTimeSec

---------------------------------------------------------------------------
(* The breeding season with the frame loop running: as long as a tick     *)
(* fits the horizon, the world is updated.                                 *)

\* a step of ReproUpdate(Sec(450)), told by the clock
ReproFrame ==
    /\ simTimeSec + ScaledDelta(Sec(450), speedMultiplier) <= MaxReproTime
    /\ simTimeSec' = simTimeSec + ScaledDelta(Sec(450), speedMultiplier)

SpecReproFair ==
    ReproInit /\ [][NextRepro]_vars /\ WF_simTimeSec(ReproFrame)

\* the fish is a live female in LAYING
IsLaying(f) ==
    f.lifeState = "ALIVE" /\ f.sex = "female" /\ f.repro.state = "LAYING"

\* the fish stands where steering to her lay target ends: at the target
\* brought inside the movement bounds
AtLayTarget(f) ==
    /\ f.repro.layTargetX # Null
    /\ << f.x, f.y >> =
          resolveCollisions(bounds, f.repro.layTargetX, f.repro.layTargetY)

---------------------------------------------------------------------------
(* The filter in use with the frame loop running: as long as a frame of    *)
(* 6 s fits the horizon, the world is updated.                             *)

\* a step of FilterUpdate, told by the clock
FilterFrame ==
    \E d \in FilterDeltas :
      /\ simTimeSec + ScaledDelta(d, speedMultiplier) <= MaxFilterTime
      /\ simTimeSec' = simTimeSec + ScaledDelta(d, speedMultiplier)

SpecFilterFair ==
    FilterInit /\ [][NextFilter]_vars /\ WF_simTimeSec(FilterFrame)

\* updates of this total still fit the horizon
FilterTimeLeft(sec) ==
    ~paused /\ simTimeSec + ScaledDelta(Sec(sec), speedMultiplier) <= MaxFilterTime

\* the filter health in whole percent, rounded
HealthPercent(wt) == (wt.filter01 * 100 + One01 \div 2) \div One01

\* C23: every installation under way completes once the updates since have
\* come to the install duration: the filter is installed, installProgress01
\* is back at 0 and the health is 100%; every maintenance under way
\* completes likewise: the health is back at the restore target (100%),
\* maintenanceProgress01 is 0 and the cooldown has started; and the cooldown
\* counts down to 0.  The liveness is stated while the time needed still
\* fits the horizon; in frames of 6 s the cooldown of 25 s takes 30 s.
C23_FilterTimersComplete ==
    /\ ( (water.installProgress01 > 0 /\ ~water.filterInstalled
          /\ FilterTimeLeft(FILTER_INSTALL_DURATION_SEC))
         ~> (water.filterInstalled /\ water.installProgress01 = 0) )
    /\ ( (water.maintenanceProgress01 > 0
          /\ FilterTimeLeft(FILTER_MAINTENANCE_DURATION_SEC))
         ~> (water.maintenanceProgress01 = 0 /\ water.maintenanceCooldownSec > 0) )
    /\ ( (water.maintenanceCooldownSec > 0
          /\ FilterTimeLeft(FILTER_MAINTENANCE_COOLDOWN_SEC + 5))
         ~> (water.maintenanceCooldownSec = 0) )
    /\ [][ /\ (water.installProgress01 > 0 /\ ~water.filterInstalled
               /\ water'.filterInstalled)
              => /\ water'.installProgress01 = 0
                 /\ water'.filterEnabled
                 /\ HealthPercent(water') = 100
           /\ (water.maintenanceProgress01 > 0 /\ water'.maintenanceProgress01 = 0)
              => /\ HealthPercent(water') = 100
                 /\ water'.maintenanceCooldownSec
                      = Sec(FILTER_MAINTENANCE_COOLDOWN_SEC)
           /\ (water.installProgress01 > 0 /\ ~water.filterInstalled
               /\ ~water'.filterInstalled)
              => water'.installProgress01 >= water.installProgress01
           /\ (water.maintenanceProgress01 > 0 /\ water'.maintenanceProgress01 > 0)
              => water'.maintenanceProgress01 >= water.maintenanceProgress01
           /\ water'.maintenanceCooldownSec > water.maintenanceCooldownSec
              => water.maintenanceProgress01 > 0 ]_vars

\* an update has just completed a maintenance: the filter is at full
\* health again and the cooldown is at its start
C23_Witness ==
    /\ call.op = "update"
    /\ water.filterInstalled
    /\ water.maintenanceProgress01 = 0
    /\ water.maintenanceCooldownSec = Sec(FILTER_MAINTENANCE_COOLDOWN_SEC)
    /\ HealthPercent(water) = 100

---------------------------------------------------------------------------
(* The catch-up loop of the host.  HIDDEN_STEP_SEC of main.js is 0.25 s;   *)
(* the clock of the model counts half seconds and its frames are of 6 s,   *)
(* so the loop is stepped here in frames of 6 s.                           *)

HiddenStepSec == 6

\* stepHiddenSim(rawDeltaSec): world.update(dt) with dt = min(step,
\* remaining) until nothing remains; every sub-step with quiet draws
RECURSIVE stepHiddenSim(_, _)
stepHiddenSim(w, remaining) ==
    IF remaining <= 0 THEN w
    ELSE LET dt == Min(Sec(HiddenStepSec), remaining)
         IN  stepHiddenSim(update(w, dt, QuietDraws(w)), remaining - dt)

\* the filter state machine of a water record
FilterState(wt) ==
    [ filterInstalled |-> wt.filterInstalled,
      installProgress01 |-> wt.installProgress01,
      maintenanceProgress01 |-> wt.maintenanceProgress01,
      maintenanceCooldownSec |-> wt.maintenanceCooldownSec ]

\* C24: one large update and the same time in sub-steps give the same
\* state-machine outcome; stated for the filter: an update of 30 s leaves
\* the installation, the maintenance and the cooldown as the catch-up loop
\* over the same 30 s leaves them.
C24_StepsEquivalent ==
    [][ (call'.op = "update" /\ call'.arg = Sec(30) /\ ~paused)
        => FilterState(water') = FilterState(stepHiddenSim(World, Sec(30)).water) ]_vars

---------------------------------------------------------------------------
(* Play time: a fresh tank is filled up to PlayFishCount fish that all     *)
(* have the play methods; the world is stepped in frames of 3 s with every *)
(* outcome of the play rolls, and the fish count is cut down in between.   *)

PlayFishCount == 7

MaxPlayTime == 30

PlayDeltas == { Sec(3) }

PlayTrimInputs == { 1, 3 }

\* every fish of the world has the play methods
Playful(w) ==
    [w EXCEPT !.fish = [ i \in DOMAIN @ |-> [@[i] EXCEPT !.play.methods = TRUE] ]]

PlayInit ==
    /\ \E w \in FreshWorlds :
         WorldIs(Playful(setFishCount(w, PlayFishCount, "female", << 10, 10 >>)))
    /\ HostAtLoad
    /\ call = NoCall

\* the rolls of the play phases: every pair succeeds or none, each of the
\* two is the runner, the session lasts 4 s or 7 s, every fish wins its
\* roll to join or none does
PlayDraws(w) ==
    LET ids == FishIds(w.fish)
    IN  { [QuietDraws(w) EXCEPT !.play =
             [ start |-> st, runnerFirst |-> rf, duration |-> du,
               join |-> jo, expand |-> ex ]] :
          st \in { {}, { PairKey(a, b) : << a, b >> \in ids \X ids } },
          rf \in BOOLEAN,
          du \in PlayDurationChoices,
          jo \in { {}, ids },
          ex \in { {}, ids } }

PlayUpdate(rawDelta) ==
    /\ simTimeSec + ScaledDelta(rawDelta, speedMultiplier) <= MaxPlayTime
    /\ \E r \in PlayDraws(World) : SetWorld(update(World, rawDelta, r))
    /\ UNCHANGED hostVars
    /\ call' = Returned("update", rawDelta)

\* setFishCount(count) with a count below the number of fish
PlaySetFishCount(count) ==
    /\ Len(fish) > count
    /\ SetWorld(setFishCount(World, count, "female", << 10, 10 >>))
    /\ UNCHANGED hostVars
    /\ call' = Returned("input", count)

NextPlay ==
    \/ \E d \in PlayDeltas : PlayUpdate(d)
    \/ \E count \in PlayTrimInputs : PlaySetFishCount(count)

SpecPlay == PlayInit /\ [][NextPlay]_vars

\* the world of an update when #updatePlaySessions() begins
BeforePlaySessions(w, rawDelta) ==
    updatePlayStateAll(updateLifeCycleAll(
      [w EXCEPT !.simTimeSec = @ + ScaledDelta(rawDelta, w.speedMultiplier)]))

\* the session has a runner that is found and playing, at least one chaser,
\* every chaser found and playing, and its expiry ahead
SessionValid(v, s) ==
    /\ FindFish(v.fish, s.runnerFishId) > 0
    /\ isPlaying(v.fish[FindFish(v.fish, s.runnerFishId)], v.simTimeSec)
    /\ Len(s.chaserFishIds) >= 1
    /\ \A k \in DOMAIN s.chaserFishIds :
         /\ FindFish(v.fish, s.chaserFishIds[k]) > 0
         /\ isPlaying(v.fish[FindFish(v.fish, s.chaserFishIds[k])], v.simTimeSec)
    /\ v.simTimeSec < s.untilSec

\* the session has a runner that is found and playing, a chaser that is
\* found and playing, and its expiry ahead
SessionAlive(v, s) ==
    /\ FindFish(v.fish, s.runnerFishId) > 0
    /\ isPlaying(v.fish[FindFish(v.fish, s.runnerFishId)], v.simTimeSec)
    /\ PlayingChasers(v, s) # << >>
    /\ v.simTimeSec < s.untilSec

\* C25: after the play-session maintenance of a tick every session left in
\* the list has a runner that exists and is playing, at least one chaser,
\* all its chasers existing and playing, and an expiry later than the
\* clock; a session that fails one of these is out of the list and none of
\* its fish that were playing still is.
C25_SessionsMaintained ==
    [][ (call'.op = "update" /\ ~paused)
        => \E v \in { BeforePlaySessions(World, call'.arg) } :
             \E u \in { updatePlaySessions(v) } :
               /\ \A k \in DOMAIN u.playSessions : SessionValid(u, u.playSessions[k])
               /\ \A k \in DOMAIN v.playSessions :
                    LET s == v.playSessions[k]
                    IN  IF SessionAlive(v, s)
                        THEN \E n \in DOMAIN u.playSessions : u.playSessions[n].id = s.id
                        ELSE /\ \A n \in DOMAIN u.playSessions :
                                  u.playSessions[n].id # s.id
                             /\ \A i \in DOMAIN u.fish :
                                  u.fish[i].id \in { s.runnerFishId } \cup Range(s.chaserFishIds)
                                  => ~isPlaying(u.fish[i], u.simTimeSec) ]_vars

\* an update has found the runner's chasers gone from the tank and has
\* taken the session down: the runner, alone, plays no more
C25_Witness ==
    /\ call.op = "update"
    /\ Len(fish) = 1
    /\ nextPlaySessionId = 2
    /\ playSessions = << >>
    /\ simTimeSec = Sec(6)
    /\ fish[1].play.sessionId = Null

\* C26: no play session has more than PLAY_MAX_CHASERS (5) chasers, whether
\* they came at its formation or joined it later.
C26_ChasersBounded ==
    \A k \in DOMAIN playSessions :
        Len(playSessions[k].chaserFishIds) <= PLAY_MAX_CHASERS

\* the phases of a tick that run before the named one
PhasesBefore(name) ==
    SubSeq(UpdatePhases, 1,
           (CHOOSE k \in DOMAIN UpdatePhases : UpdatePhases[k] = name) - 1)

\* the food ids of a world
FoodIds(fd) == { fd[i].id : i \in DOMAIN fd }

\* the pellets of the world v (as #updateFood finds it) whose ttl runs out
\* within delta
ExpiringFood(v, delta) ==
    { v.food[i].id : i \in { j \in DOMAIN v.food : v.food[j].ttl - delta <= 0 } }

\* the water tick on the world v with count expired pellets to account for
WaterTickWith(v, count, delta) ==
    updateWaterHygiene([v EXCEPT !.expiredFoodSinceLastWaterUpdate = count], delta)

\* C27: in an update of positive delta every pellet whose ttl runs out is
\* removed from the food list, and the water tick of the same update takes
\* in exactly one expired-food dirt unit for each of them, no more and none
\* left for later; a pellet eaten up before the food tick adds none.
C27_ExpiredFoodCounted ==
    [][(call'.op = "update" /\ call'.arg > 0 /\ ~paused) =>
         \E r \in Draws(World, call'.arg) :
           \E u \in { RunPhases(World, PhasesBefore("updateFood"),
                                ScaledDelta(call'.arg, speedMultiplier), r) } :
             \E x \in { RunPhases(u, << "updateFood", "updateEggs" >>,
                                  ScaledDelta(call'.arg, speedMultiplier), r) } :
               /\ FoodIds(food') = FoodIds(u.food)
                    \ ExpiringFood(u, ScaledDelta(call'.arg, speedMultiplier))
               /\ World' = WaterTickWith(x,
                     Cardinality(ExpiringFood(u, ScaledDelta(call'.arg, speedMultiplier))),
                     ScaledDelta(call'.arg, speedMultiplier))
               /\ expiredFoodSinceLastWaterUpdate' = 0 ]_vars

\* an update has found a pellet that no fish had touched past its ttl: the
\* pellet is gone and its dirt is in the water
C27_Witness ==
    /\ call.op = "update" /\ call.arg > 0
    /\ food = << >>
    /\ nextFoodId > 1
    /\ foodsConsumedCount = 0
    /\ water.dirt01 >= WATER_DIRT_PER_EXPIRED_FOOD
    /\ expiredFoodSinceLastWaterUpdate = 0

---------------------------------------------------------------------------
(* The filter is earned: a new tank is fed pellet by pellet, the fish eat, *)
(* and the user tries the install button at any time.                      *)

MaxUnlockFoodId == 8
MaxUnlockTime == 12

\* the frames of this session: none of no duration, and frames of 6 s
UnlockDeltas == { 0, Sec(6) }

UnlockInit ==
    /\ \E w \in FreshWorlds : WorldIs(w)
    /\ HostAtLoad
    /\ call = NoCall

\* the user drops a pellet of the least amount on a fish
UnlockFeed(k) ==
    /\ nextFoodId <= MaxUnlockFoodId
    /\ Len(food) < 2
    /\ SetWorld(spawnFood(World, fish[k].x, fish[k].y, 50, Sec(FOOD_DEFAULT_TTL)))
    /\ UNCHANGED hostVars
    /\ call' = Returned("input", k)

UnlockUpdate(rawDelta) ==
    /\ simTimeSec + ScaledDelta(rawDelta, speedMultiplier) <= MaxUnlockTime
    /\ \E r \in Draws(World, rawDelta) : SetWorld(update(World, rawDelta, r))
    /\ UNCHANGED hostVars
    /\ call' = Returned("update", rawDelta)

NextUnlock ==
    \/ \E k \in DOMAIN fish : UnlockFeed(k)
    \/ \E d \in UnlockDeltas : UnlockUpdate(d)
    \/ InstallWaterFilter

SpecUnlock == UnlockInit /\ [][NextUnlock]_vars

\* filterUnlockThreshold
filterUnlockThreshold == 4 * initialFishCount

\* C28: filterUnlocked is true exactly when at least filterUnlockThreshold
\* (four times the initial fish count) food consumptions have happened; it
\* never turns false again, and no installation starts while fewer
\* consumptions have happened.
C28_FilterUnlock ==
    /\ [](filterUnlocked <=> foodsConsumedCount >= filterUnlockThreshold)
    /\ [][ /\ filterUnlocked => filterUnlocked'
           /\ foodsConsumedCount' >= foodsConsumedCount
           /\ (~(water.installProgress01 > 0) /\ water'.installProgress01 > 0)
                => (call'.op = "install"
                    /\ foodsConsumedCount >= filterUnlockThreshold) ]_vars

\* the eighth consumption has unlocked the filter of a tank of two, and
\* the installation has been started
C28_Witness ==
    /\ call.op = "install" /\ call.ret = "true"
    /\ initialFishCount = 2
    /\ foodsConsumedCount = 8
    /\ filterUnlocked
    /\ water.installProgress01 > 0

---------------------------------------------------------------------------
(* Courtship: the fed pair of the breeding season is watched frame by      *)
(* frame, in frames shorter than the retry time of a pair.                 *)

MateFrameSec == 10
MaxMateTime == 1890

MateDeltas == { Sec(MateFrameSec), Sec(MateFrameSec) + Sec(5) }

MateUpdate(rawDelta) ==
    /\ simTimeSec + ScaledDelta(rawDelta, speedMultiplier) <= MaxMateTime
    /\ \E r \in Draws(World, rawDelta) : SetWorld(update(World, rawDelta, r))
    /\ UNCHANGED hostVars
    /\ call' = Returned("update", rawDelta)

NextMate == \E d \in MateDeltas : MateUpdate(d)

SpecMate == ReproInit /\ [][NextMate]_vars

\* the unordered pairs of fish ids
PairKeys == { k \in (1..MaxFishId) \X (1..MaxFishId) : k[1] < k[2] }

\* C29: two successive mating rolls between the same unordered pair are at
\* least MATE_PAIR_RETRY_MIN_SEC (25 s) of simulated time apart, whichever
\* of the two comes first in the fish list and whether or not the earlier
\* roll succeeded.  A roll stamps the pair's entry of matePairNextTryAt
\* with its time plus 25 s: an entry is stamped only with the time of the
\* tick plus 25 s, under the pair's key in ascending id order, and never
\* before the time of its previous stamp has come.
C29_RollsApart ==
    [][ /\ \A e \in matePairNextTryAt' : e.key \in PairKeys
        /\ \A key \in PairKeys :
             nextTryAt(World', key) # nextTryAt(World, key) =>
               /\ nextTryAt(World', key) = simTimeSec' + Sec(MATE_PAIR_RETRY_MIN_SEC)
               /\ simTimeSec' >= nextTryAt(World, key) ]_vars

\* the pair whose roll failed when the season began has rolled a second
\* time, in the first frame 25 s or more later
C29_Witness ==
    /\ call.op = "update"
    /\ \E e \in matePairNextTryAt :
          /\ e.at = simTimeSec + Sec(MATE_PAIR_RETRY_MIN_SEC)
          /\ simTimeSec >= 1800 + Sec(MateFrameSec) + Sec(MATE_PAIR_RETRY_MIN_SEC)

---------------------------------------------------------------------------
(* The order of the fish list within a phase *)

\* the world with its fish list in the order p
Reordered(w, p) ==
    [w EXCEPT !.fish = Listed([ i \in DOMAIN w.fish |-> w.fish[p[i]] ])]

\* the fish of the given id
FishOf(w, id) == w.fish[FindFish(w.fish, id)]

\* the two worlds hold the same fish, each in the same state
SameFish(a, b) ==
    /\ FishIds(a.fish) = FishIds(b.fish)
    /\ \A id \in FishIds(a.fish) : FishOf(a, id) = FishOf(b, id)

\* the food-consumption phase leaves every fish the same in whatever order
\* the fish of the world v are iterated
ConsumptionOrderFree(v) ==
    \A p \in Shuffles(Len(v.fish)) :
        SameFish(consumeAll(v, 1), consumeAll(Reordered(v, p), 1))

\* the mating scan leaves every fish the same in whatever order the fish of
\* the world v are iterated
MatingOrderFree(v, r) ==
    \A p \in Shuffles(Len(v.fish)) :
        SameFish(mateScan(v, 1, v.simTimeSec, r),
                 mateScan(Reordered(v, p), 1, v.simTimeSec, r))

---------------------------------------------------------------------------
(* A shared meal: the fish of a new tank are hungry, and one pellet at a   *)
(* time is dropped for all of them.                                        *)

MaxShareTime == 3600
MaxShareFoodId == 2

ShareUpdate(rawDelta) ==
    /\ simTimeSec + ScaledDelta(rawDelta, speedMultiplier) <= MaxShareTime
    /\ \E r \in Draws(World, rawDelta) : SetWorld(update(World, rawDelta, r))
    /\ UNCHANGED hostVars
    /\ call' = Returned("update", rawDelta)

ShareFeed(in) ==
    /\ food = << >>
    /\ nextFoodId <= MaxShareFoodId
    /\ SetWorld(spawnFood(World, in.x, in.y, in.amount, in.ttl))
    /\ UNCHANGED hostVars
    /\ call' = Returned("input", 0)

NextShare ==
    \/ \E d \in RawDeltas : ShareUpdate(d)
    \/ \E in \in FoodInputs : ShareFeed(in)

ShareInit ==
    /\ \E w \in FreshWorlds : WorldIs(w)
    /\ HostAtLoad
    /\ call = NoCall

SpecShare == ShareInit /\ [][NextShare]_vars

\* C31: toggleWaterFilterEnabled flips filterEnabled only when the filter is
\* installed and neither an installation nor a maintenance is under way,
\* and then changes nothing else; in every other state it leaves every
\* water field as it was; the value it returns is filterEnabled after the
\* call.
C31_ToggleGuarded ==
    [][call'.op = "toggle" =>
         /\ IF /\ water.filterInstalled
               /\ water.installProgress01 = 0
               /\ water.maintenanceProgress01 = 0
            THEN water' = [water EXCEPT !.filterEnabled = ~@]
            ELSE water' = water
         /\ call'.ret = (IF water'.filterEnabled THEN "true" ELSE "false")
         /\ [World' EXCEPT !.water = water] = World ]_vars

\* a toggle has been refused while a maintenance was under way: the filter
\* is still switched on, and the call returned true
C31_Witness ==
    /\ call.op = "toggle" /\ call.ret = "true"
    /\ water.filterInstalled
    /\ water.maintenanceProgress01 > 0
    /\ water.filterEnabled

---------------------------------------------------------------------------
(* A death in the tank: the first fish of a new tank has tired and is one *)
(* tiring tick from starving; the tank is updated in short frames and fed *)
(* until the corpse is gone.                                               *)

MaxCorpseTime == 2760
MaxCorpseFoodId == 1

\* frames of one minute and of 140 s
CorpseDeltas == { Sec(60), Sec(140) }

BeforeDeath == << "tireFar", "tireNear" >>

CorpseInit ==
    /\ \E w \in FreshWorlds : WorldIs(Session(w, BeforeDeath))
    /\ HostAtLoad
    /\ call = NoCall

CorpseUpdate(rawDelta) ==
    /\ simTimeSec + ScaledDelta(rawDelta, speedMultiplier) <= MaxCorpseTime
    /\ \E r \in Draws(World, rawDelta) : SetWorld(update(World, rawDelta, r))
    /\ UNCHANGED hostVars
    /\ call' = Returned("update", rawDelta)

CorpseFeed(in) ==
    /\ food = << >>
    /\ nextFoodId <= MaxCorpseFoodId
    /\ SetWorld(spawnFood(World, in.x, in.y, in.amount, in.ttl))
    /\ UNCHANGED hostVars
    /\ call' = Returned("input", 0)

NextCorpse ==
    \/ \E d \in CorpseDeltas : CorpseUpdate(d)
    \/ \E in \in FoodInputs : CorpseFeed(in)

SpecCorpse == CorpseInit /\ [][NextCorpse]_vars

\* a fish that is no longer alive, as every call leaves it: in the passive
\* sink mode, not swimming, its death time stamped, out of energy
AtRest(f) ==
    /\ f.behavior = DeadSinkBehavior
    /\ ~f.moved
    /\ f.deadAtSec # Null
    /\ f.energy01 = 0

\* C32: once a fish's lifeState is no longer ALIVE it never becomes ALIVE
\* again; from then on it does not swim (it only sinks, straight down to
\* the floor), its behaviour is the passive sink mode, its death time is
\* stamped once and never changes, and it never consumes food or gains
\* energy.
C32_DeadStaysDead ==
    /\ [](\A i \in DOMAIN fish : fish[i].lifeState # "ALIVE" => AtRest(fish[i]))
    /\ [][\A i \in DOMAIN fish : \A j \in DOMAIN fish' :
            (fish[i].lifeState # "ALIVE" /\ fish'[j].id = fish[i].id) =>
              /\ fish'[j].lifeState = fish[i].lifeState
              /\ fish'[j].deadAtSec = fish[i].deadAtSec
              /\ fish'[j].energy01 <= fish[i].energy01
              /\ fish'[j].x = fish[i].x
              /\ fish'[j].y >= fish[i].y
              /\ fish'[j].y <= movementBounds(bounds).maxY ]_vars

\* a fish that starved lies on the floor while a pellet is in the tank and
\* the tank has been updated since its death
C32_Witness ==
    /\ call.op = "update"
    /\ food # << >>
    /\ \E i \in DOMAIN fish :
          /\ fish[i].lifeState = "DEAD"
          /\ fish[i].deadAtSec < simTimeSec
          /\ fish[i].y = movementBounds(bounds).maxY

---------------------------------------------------------------------------
(* Bites: pellets of several amounts are dropped into a new tank and       *)
(* consumed bite by bite, by calls of consumeFood and by the fish.         *)

MaxBiteFoodId == 2
MaxBiteTime == 12

\* amounts asked for, in thousandths: none, a part, all but a thousandth of
\* the larger pellet
BiteAmounts == { 0, 150, 399 }

\* pellets dropped: of less than the least amount, and a larger one
BiteFoodInputs ==
    { [ x |-> 50, y |-> 30, amount |-> 50, ttl |-> Sec(FOOD_DEFAULT_TTL) ],
      [ x |-> 90, y |-> 50, amount |-> 400, ttl |-> Sec(FOOD_DEFAULT_TTL) ] }

BiteDeltas == { Sec(6) }

BiteInit ==
    /\ \E w \in FreshWorlds : WorldIs(w)
    /\ HostAtLoad
    /\ call = NoCall

BiteSpawn(in) ==
    /\ nextFoodId <= MaxBiteFoodId
    /\ SetWorld(spawnFood(World, in.x, in.y, in.amount, in.ttl))
    /\ UNCHANGED hostVars
    /\ call' = [ op |-> "spawn", arg |-> in.amount, ret |-> 0 ]

\* consumeFood(foodId, amountToConsume), called from outside
Bite(foodId, amountToConsume) ==
    /\ SetWorld(consumeFood(World, foodId, amountToConsume))
    /\ UNCHANGED hostVars
    /\ call' = [ op |-> "consume", arg |-> << foodId, amountToConsume >>,
                 ret |-> consumedAmount(World, foodId, amountToConsume) ]

BiteUpdate(rawDelta) ==
    /\ simTimeSec + ScaledDelta(rawDelta, speedMultiplier) <= MaxBiteTime
    /\ \E r \in Draws(World, rawDelta) : SetWorld(update(World, rawDelta, r))
    /\ UNCHANGED hostVars
    /\ call' = Returned("update", rawDelta)

NextBite ==
    \/ \E in \in BiteFoodInputs : BiteSpawn(in)
    \/ \E id \in 1..(MaxBiteFoodId + 1) : \E a \in BiteAmounts : Bite(id, a)
    \/ \E d \in BiteDeltas : BiteUpdate(d)

SpecBite == BiteInit /\ [][NextBite]_vars

\* what is left of the pellet of this id, 0 when it is not in the list
Remaining(fd, id) ==
    IF FindFood(fd, id) = 0 THEN 0 ELSE fd[FindFood(fd, id)].amount

\* C33: for every food item the amounts returned by the consumeFood calls
\* on it sum to at most the amount it was spawned with, its remaining
\* amount is never negative, it is out of the food list once its remaining
\* amount is at most 0.001, and consumeFood on an id that is not in the
\* list returns 0 and changes nothing.  Every pellet in the list holds more
\* than a thousandth; a call on a listed pellet returns no more than what
\* was left and leaves exactly the rest, in the list only if the rest is
\* more than a thousandth; no step adds to a pellet.
C33_FoodConserved ==
    /\ [](\A i \in DOMAIN food : food[i].amount > 1)
    /\ [][ /\ \A id \in FoodIds(food) \cap FoodIds(food') :
                Remaining(food', id) <= Remaining(food, id)
           /\ call'.op = "consume" =>
                IF call'.arg[1] \notin FoodIds(food)
                THEN call'.ret = 0 /\ World' = World
                ELSE /\ call'.ret >= 0
                     /\ call'.ret <= Remaining(food, call'.arg[1])
                     /\ Remaining(food', call'.arg[1]) =
                          (IF Remaining(food, call'.arg[1]) - call'.ret <= 1 THEN 0
                           ELSE Remaining(food, call'.arg[1]) - call'.ret) ]_vars

\* a bite has taken all but a thousandth of a pellet: the pellet is out of
\* the list
C33_Witness ==
    /\ call.op = "consume"
    /\ call.ret = 399
    /\ call.arg[1] \notin FoodIds(food)

\* the ids of the corpses of a world
DeadIds(w) ==
    { w.fish[i].id : i \in { j \in DOMAIN w.fish : w.fish[j].lifeState = "DEAD" } }

\* the dirt the corpse of this id has added so far: what its record holds,
\* the full amount once it has been taken out of the tank
AppliedOf(w, id) ==
    IF id \in FishIds(w.fish) THEN FishOf(w, id).corpseDirtApplied01
    ELSE CORPSE_DIRT_MAX01

RECURSIVE AppliedSum(_, _)
AppliedSum(w, ids) ==
    IF ids = {} THEN 0
    ELSE LET id == CHOOSE i \in ids : TRUE
         IN  AppliedOf(w, id) + AppliedSum(w, ids \ { id })

\* the dirt the corpse loop of #updateWaterHygiene adds to the water of v
CorpseDirtAdded(v) == corpseScan(v, Len(v.fish)).water.dirt01 - v.water.dirt01

\* C34: a corpse adds no dirt during the first 120 s after its death, and
\* the dirt one corpse adds over its whole time in the tank never exceeds
\* 0.12, however the time is split into updates: the tally of a corpse is
\* 0 while it is less than 120 s dead and never above 0.12, and the dirt
\* that the corpses add to the water in an update is exactly what is added
\* to their tallies.
C34_CorpseDirtBounded ==
    /\ [](\A i \in DOMAIN fish :
            /\ fish[i].corpseDirtApplied01 >= 0
            /\ fish[i].corpseDirtApplied01 <= CORPSE_DIRT_MAX01
            /\ (fish[i].lifeState = "DEAD"
                  /\ simTimeSec - fish[i].deadAtSec < Sec(CORPSE_GRACE_SEC))
                 => fish[i].corpseDirtApplied01 = 0)
    /\ [][(call'.op = "update" /\ call'.arg > 0) =>
            \E r \in Draws(World, call'.arg) :
              \E x \in { RunPhases(World, PhasesBefore("updateWaterHygiene"),
                                   ScaledDelta(call'.arg, speedMultiplier), r) } :
                /\ World' = RunPhases(x, << "updateWaterHygiene" >>,
                                      ScaledDelta(call'.arg, speedMultiplier), r)
                /\ CorpseDirtAdded(x) =
                     AppliedSum(World', DeadIds(x)) - AppliedSum(x, DeadIds(x)) ]_vars

\* a corpse more than 120 s and less than 420 s dead lies in the tank after
\* three updates: it has added part of its dirt
C34_Witness ==
    /\ call.op = "update"
    /\ \E i \in DOMAIN fish :
          /\ fish[i].lifeState = "DEAD"
          /\ simTimeSec - fish[i].deadAtSec >= Sec(CORPSE_GRACE_SEC) + Sec(CORPSE_DIRT_STEP_SEC)
          /\ fish[i].corpseDirtApplied01 > CORPSE_DIRT_INITIAL01
          /\ fish[i].corpseDirtApplied01 < CORPSE_DIRT_MAX01

\* the fish that lose an expansion roll of #tryExpandPlaySessions in the
\* world v: they can start to play and are within the join radius of the
\* playing runner of a session, and their roll (p.expand) fails
ExpandFailures(v, p) ==
    { v.fish[i].id : i \in { n \in DOMAIN v.fish :
        /\ canStartPlay(v.fish[n], v.simTimeSec)
        /\ v.fish[n].id \notin p.expand
        /\ \E k \in DOMAIN v.playSessions :
             LET ri == FindFish(v.fish, v.playSessions[k].runnerFishId)
             IN  /\ ri > 0
                 /\ isPlaying(v.fish[ri], v.simTimeSec)
                 /\ Within(v.fish[n].x, v.fish[n].y, v.fish[ri].x, v.fish[ri].y,
                           PLAY_JOIN_RADIUS) } }

\* the fish that lose a formation roll in the loops of
\* #tryStartPlaySessions from the pair (i, j) on
RECURSIVE StartFailuresFrom(_, _, _, _)
StartFailuresFrom(v, i, j, p) ==
    LET n == Len(v.fish)
        now == v.simTimeSec
    IN  IF i >= n THEN {}
        ELSE IF j > n
        THEN IF i + 1 < n /\ ~canStartPlay(v.fish[i + 1], now)
             THEN StartFailuresFrom(v, i + 1, n + 1, p)
             ELSE StartFailuresFrom(v, i + 1, i + 2, p)
        ELSE IF ~canStartPlay(v.fish[j], now)
                \/ ~Within(v.fish[i].x, v.fish[i].y, v.fish[j].x, v.fish[j].y,
                           PLAY_ENCOUNTER_RADIUS)
        THEN StartFailuresFrom(v, i, j + 1, p)
        ELSE IF PairKey(v.fish[i].id, v.fish[j].id) \in p.start
        THEN {}
        ELSE { v.fish[i].id, v.fish[j].id } \cup
             StartFailuresFrom(
               [v EXCEPT
                  !.fish[i] = delayPlayEligibility(@, now + Sec(PLAY_RETRY_DELAY_SEC)),
                  !.fish[j] = delayPlayEligibility(@, now + Sec(PLAY_RETRY_DELAY_SEC))],
               i, j + 1, p)

StartFailures(v, p) ==
    IF Len(v.fish) < 2 THEN {}
    ELSE IF ~canStartPlay(v.fish[1], v.simTimeSec)
    THEN StartFailuresFrom(v, 1, Len(v.fish) + 1, p)
    ELSE StartFailuresFrom(v, 1, 2, p)

\* the fish is held back from play rolls: it plays, or its eligibility is
\* delayed past the time now
HeldBack(f, now) == f.play.sessionId # Null \/ f.play.eligibleAtSec > now

\* C35: every fish that fails a play join roll, be it a formation roll
\* between two eligible fish or an expansion roll to join a session, is
\* made ineligible to start play for a short time, so that it is not rolled
\* again on the next tick: after every update, the fish that lost a roll in
\* it are playing by now or delayed past the time of the update.
C35_FailedRollDelays ==
    [][call'.op = "update" =>
         \E r \in PlayDraws(World) :
           /\ World' = update(World, call'.arg, r)
           /\ \A id \in
                  ExpandFailures(
                    RunPhases(World, PhasesBefore("tryExpandPlaySessions"),
                              ScaledDelta(call'.arg, speedMultiplier), r), r.play)
                  \cup
                  StartFailures(
                    RunPhases(World, PhasesBefore("tryStartPlaySessions"),
                              ScaledDelta(call'.arg, speedMultiplier), r), r.play) :
                id \in FishIds(fish') => HeldBack(FishOf(World', id), simTimeSec') ]_vars

---------------------------------------------------------------------------
(* The page in use: the simulation is started and sent back to the start   *)
(* screen, the page is hidden and shown, and the browser runs the          *)
(* callbacks that are pending, in any order.  While the simulation is not  *)
(* started the page holds no world; the world variables then keep their    *)
(* last value, which no callback reads.                                    *)

MaxHandle == 7

MaxDriverTime == 72

\* frames as the drivers measure them: a frame in time and a late one
DriverDeltas == { Sec(HiddenStepSec), Sec(2 * HiddenStepSec) }

\* stepVisibleSim(rawDeltaSec): one update of at most the step
stepVisibleSim(w, rawDeltaSec) ==
    LET dt == Min(Sec(HiddenStepSec), Max(0, rawDeltaSec))
    IN  IF dt <= 0 THEN w ELSE update(w, dt, QuietDraws(w))

DriversInit ==
    /\ \E w \in FreshWorlds : WorldIs(w)
    /\ call = NoCall
    /\ started = FALSE
    /\ hidden \in BOOLEAN
    /\ rafId = Null
    /\ bgIntervalId = Null
    /\ frameRequests = {}
    /\ intervals = {}
    /\ nextHandle = 1

\* startSimulation() with no saved payload: fresh is the world it builds
HostStart(fresh) ==
    /\ nextHandle <= MaxHandle
    /\ SetHost(startDrivers(Host))
    /\ IF started THEN UNCHANGED worldVars ELSE SetWorld(fresh)
    /\ call' = Returned("start", 0)

\* restartToStartScreen()
HostRestart ==
    /\ SetHost(restartToStartScreen(Host))
    /\ UNCHANGED worldVars
    /\ call' = Returned("restart", 0)

\* the visibilitychange event: the page is hidden or shown and the listener
\* syncDriversToVisibility runs
VisibilityChange ==
    /\ nextHandle <= MaxHandle
    /\ SetHost(syncDriversToVisibility([Host EXCEPT !.hidden = ~@]))
    /\ UNCHANGED worldVars
    /\ call' = Returned("visibilitychange", 0)

\* the browser runs tick for a pending frame request
AnimationFrame(id, rawDelta) ==
    /\ id \in frameRequests
    /\ nextHandle <= MaxHandle
    /\ simTimeSec + rawDelta <= MaxDriverTime
    /\ SetHost(tickRequest(Host, id))
    /\ IF started THEN SetWorld(stepVisibleSim(World, rawDelta))
       ELSE UNCHANGED worldVars
    /\ call' = Returned("tick", rawDelta)

\* the browser runs the callback of a running interval
IntervalTick(id, rawDelta) ==
    /\ id \in intervals
    /\ simTimeSec + rawDelta <= MaxDriverTime
    /\ UNCHANGED hostVars
    /\ IF started THEN SetWorld(stepHiddenSim(World, rawDelta))
       ELSE UNCHANGED worldVars
    /\ call' = Returned("interval", rawDelta)

NextDrivers ==
    \/ \E fresh \in FreshWorlds : HostStart(fresh)
    \/ HostRestart
    \/ VisibilityChange
    \/ \E id \in 1..MaxHandle, d \in DriverDeltas : AnimationFrame(id, d)
    \/ \E id \in 1..MaxHandle, d \in DriverDeltas : IntervalTick(id, d)

SpecDrivers == DriversInit /\ [][NextDrivers]_vars

\* C36: at most one simulation driver is scheduled at any time: the frame
\* request and the background interval are never both active, and neither
\* is active while the simulation is not started, in any order of start,
\* restart and visibility change; what the browser has pending is exactly
\* what rafId and bgIntervalId name.
C36_SingleDriver ==
    /\ Cardinality(frameRequests) + Cardinality(intervals) <= 1
    /\ ~(rafId # Null /\ bgIntervalId # Null)
    /\ frameRequests = (IF rafId = Null THEN {} ELSE { rafId })
    /\ intervals = (IF bgIntervalId = Null THEN {} ELSE { bgIntervalId })
    /\ ~started => rafId = Null /\ bgIntervalId = Null

\* the simulation was started, sent back and started again, and the page
\* was hidden meanwhile: the interval drives it, several handles later
C36_Witness ==
    /\ started
    /\ hidden
    /\ bgIntervalId # Null
    /\ bgIntervalId >= 4
    /\ simTimeSec > 0
    /\ call.op = "interval"

\* the water fields that are fractions are within [0, 1] and the cooldown
\* is not negative
WaterInRange(wt) ==
    /\ wt.hygiene01 \in 0..One01
    /\ wt.dirt01 \in 0..One01
    /\ wt.filter01 \in 0..One01
    /\ wt.installProgress01 \in 0..One01
    /\ wt.maintenanceProgress01 \in 0..One01
    /\ wt.maintenanceCooldownSec >= 0

\* tanks of no fish, one fish and six fish, without corpses or with as many
\* as two; pellets expired since the last water tick: none or three
PopulationSizes == { 0, 1, 6 }

ExpiredCounts == { 0, 3 }

\* update deltas as the water tick may get them: negative, zero, a frame
\* and a long one
WaterDeltas == { 0 - Sec(150), 0, Sec(6), Sec(450) }

\* the world w with n fish in the tank, dead of them corpses that died
\* 240 s ago and have soiled nothing yet, and count expired pellets pending
Populated(w, n, dead, count) ==
    LET one == (CHOOSE fresh \in FreshWorlds : TRUE).fish[1]
    IN  [w EXCEPT
           !.fish = [ i \in 1..n |->
              [one EXCEPT !.id = i,
                          !.lifeState = IF i <= dead THEN "DEAD" ELSE "ALIVE",
                          !.deadAtSec = IF i <= dead THEN w.simTimeSec - Sec(240)
                                        ELSE Null,
                          !.corpseDirtApplied01 = 0] ],
           !.fishById = 1..n,
           !.selectedFishId = Null,
           !.expiredFoodSinceLastWaterUpdate = count]

\* C37: hygiene01, dirt01, filter01, installProgress01 and
\* maintenanceProgress01 stay within [0, 1] and maintenanceCooldownSec stays
\* at or above 0 in every reachable state, and the water tick keeps them so
\* for any update delta and any number of fish, corpses and expired pellets.
C37_WaterInRange ==
    /\ WaterInRange(water)
    /\ \A n \in PopulationSizes, count \in ExpiredCounts, d \in WaterDeltas :
         \A dead \in { 0, Min(n, 2) } :
           WaterInRange(updateWaterHygiene(Populated(World, n, dead, count), d).water)

\* after an update the filter has taken all the dirt out of the water, is
\* worn, and rests after a maintenance
C37_Witness ==
    /\ call.op = "update"
    /\ water.filterInstalled
    /\ water.dirt01 = 0
    /\ water.filter01 \in 1..(One01 - 1)
    /\ water.maintenanceCooldownSec > 0

---------------------------------------------------------------------------
(* A clutch in the gravel: a clutch of two eggs has just been laid, one    *)
(* egg due after 120 s and one after 300 s; the tank is updated in frames  *)
(* of 0, 60 s and 150 s, paused and resumed, until both eggs are resolved. *)

MaxHatchTime == 4320

HatchDeltas == { 0, Sec(60), Sec(150) }

HatchInit ==
    /\ \E w \in FreshWorlds : WorldIs(Session(w, SavedEggs))
    /\ HostAtLoad
    /\ call = NoCall

HatchUpdate(rawDelta) ==
    /\ simTimeSec + ScaledDelta(rawDelta, speedMultiplier) <= MaxHatchTime
    /\ \E r \in Draws(World, rawDelta) : SetWorld(update(World, rawDelta, r))
    /\ UNCHANGED hostVars
    /\ call' = Returned("update", rawDelta)

NextHatch ==
    \/ \E d \in HatchDeltas : HatchUpdate(d)
    \/ TogglePause

SpecHatch == HatchInit /\ [][NextHatch]_vars

\* the ids of the eggs of a collection
EggIds(es) == { es[i].id : i \in DOMAIN es }

\* C38: an egg stays in the egg collection, unchanged, until the simulated
\* clock reaches its hatchAtSec: no egg is hatched or discarded before its
\* due time, and each egg is resolved on its own due time, whatever the
\* other eggs of its clutch do: the update that brings the clock to the due
\* time of an egg takes that egg out and leaves those not yet due.
C38_EggsKeptUntilDue ==
    [][\A i \in DOMAIN eggs :
         LET egg == eggs[i]
         IN  /\ simTimeSec' < egg.hatchAtSec =>
                 \E j \in DOMAIN eggs' : eggs'[j] = egg
             /\ (call'.op = "update" /\ simTimeSec' > simTimeSec
                   /\ simTimeSec' >= egg.hatchAtSec) =>
                 egg.id \notin EggIds(eggs')
             /\ (egg.id \notin EggIds(eggs')) =>
                 /\ call'.op = "update"
                 /\ simTimeSec' >= egg.hatchAtSec
                 /\ Len(fish') - Len(fish) \in 0..(Len(eggs) - Len(eggs')) ]_vars

\* the first egg of the clutch is resolved and its sibling, laid with it and
\* due later, is still in the collection
C38_Witness ==
    /\ Len(eggs) = 1
    /\ nextEggId = 3
    /\ eggs[1].id = 2
    /\ eggs[1].hatchAtSec > simTimeSec
    /\ simTimeSec >= eggs[1].laidAtSec + Sec(120)
    /\ call.op = "update"

---------------------------------------------------------------------------
(* The fish list under the user's hand: fish are selected by id, the count *)
(* is set, corpses are discarded and removed by id, and updates let fish   *)
(* die and corpses decay.  The tank is one in which a fish has starved and *)
(* lies stamped, beside a live one.                                        *)

SelectInit ==
    /\ \E w \in FreshWorlds : WorldIs(Session(w, SavedCorpse))
    /\ HostAtLoad
    /\ call = NoCall

SelectFish(id) ==
    /\ SetWorld(selectFish(World, id))
    /\ UNCHANGED hostVars
    /\ call' = [ op |-> "selectFish", arg |-> id,
                 ret |-> IF FindFish(fish, id) = 0 THEN "null" ELSE "id" ]

NextSelect ==
    \/ \E d \in RawDeltas : Update(d)
    \/ \E n \in FishCountInputs : SetFishCount(n)
    \/ \E id \in IdInputs : DiscardFish(id)
    \/ \E id \in IdInputs : RemoveCorpse(id)
    \/ \E id \in IdInputs : ToggleFishSelection(id)
    \/ \E id \in IdInputs : SelectFish(id)

SpecSelect == SelectInit /\ [][NextSelect]_vars

\* C39: selectedFishId is always either null or the id of a fish that is in
\* the fish collection, after any selection call, discard, corpse removal,
\* automatic corpse eviction or change of the fish count.
C39_SelectionValid == selectedFishId = Null \/ selectedFishId \in FishIds(fish)

\* the selection was cleared by the call that took the selected corpse out
C39_Witness ==
    /\ call.op \in { "discardFish", "removeCorpse" }
    /\ call.ret = "true"
    /\ selectedFishId = Null
    /\ call.arg \notin FishIds(fish)
    /\ fish # << >>

\* C40: the id index and the fish collection hold the same fish: every fish
\* of the collection is found under its own id, the ids are distinct, and
\* no fish removed by discard, corpse removal, automatic eviction or a
\* shrinking fish count remains in the index.
C40_IndexMatches ==
    /\ fishById = FishIds(fish)
    /\ Cardinality(fishById) = Len(fish)

\* a fish was taken out of the tank and fish remain: the index has followed
C40_Witness ==
    /\ fish # << >>
    /\ Len(fish) < nextFishId - 1
    /\ call.op \in { "update", "removeCorpse", "discardFish", "input" }
    /\ fishById # {}
    /\ \E id \in 1..(nextFishId - 1) : id \notin fishById

====
